---- MODULE Spec2Model ----
(***************************************************************************)
(* Model of the parallel Celery orchestration of the transcript analysis   *)
(* pipeline (src/src/app/parallel_orchestration.py, entered through        *)
(* api_analyze in src/src/app/api.py and run_pipeline in                   *)
(* src/src/app/orchestration.py).                                          *)
(*                                                                         *)
(* One job is followed from submission to finalization.  The job record    *)
(* lives under one Redis key; every task reads it with _load_status into a *)
(* private status_doc, changes that copy and writes the whole copy back    *)
(* with _save_status.  A load and the save that follows it are separate    *)
(* steps, so tasks of the same stage interleave between them.              *)
(*                                                                         *)
(* The utilities the analyzers call have specifications of their own over  *)
(* variables the pipeline leaves alone: the fair-share combined context    *)
(* (CombinerSpec), the summarizer (SummarizerSpec), the insight            *)
(* aggregation (AggregatorSpec), analyze_sync (RunnerSpec), the LLM client *)
(* with its retry and response cache (ClientSpec, and SharedCacheSpec for  *)
(* two worker processes on one cache file) and the extraction of insight   *)
(* items from analyzer output (ExtractorSpec).                             *)
(***************************************************************************)
EXTENDS Bags, FiniteSets, Integers, Naturals, Sequences, TLC

(* ---------------------------------------------------------------------- *)
(* Bounds                                                                  *)
(* ---------------------------------------------------------------------- *)

\* largest total_tokens a single LLM completion reports
MaxTokens == 1

\* how many Redis operations may raise during one run
MaxStoreFaults == 1

\* how many file writes may raise during one run
MaxFileFaults == 1

\* most sections a combined context is built from
MaxSections == 4

\* largest token budget of a combined context
MaxBudget == 10

\* largest minimum per analyzer
MaxMinPer == 2

\* longest text given to the summarizer, in tokens
MaxTextTokens == 4

\* largest single_pass_max_tokens
MaxSinglePass == 2

\* largest map_chunk_tokens
MaxChunkTokens == 2

\* most items the extraction passes find in one job
MaxFound == 2

\* most items the LLM pass answers with
MaxLlmItems == 2

\* seconds that pass while two jobs' analyzers run
MaxClock == 1

\* calls of complete_sync a worker makes
MaxCalls == 2

\* chunks the while loop of chunk_text_by_tokens is followed for
MaxChunks == 6

\* lengths in characters of the sections: 1, 2, 3, 4 and 50 tokens
SectionLens == {4, 8, 12, 16, 200}

(* ---------------------------------------------------------------------- *)
(* Analyzer slugs                                                          *)
(* ---------------------------------------------------------------------- *)

\* the built-in Stage A list (two of the four built-ins are modelled)
DefaultStageA == {"say_means", "perspective_perception"}

\* the built-in Stage B list (two of the four built-ins are modelled)
DefaultStageB == {"competing_hypotheses", "first_principles"}

\* the built-in Final list
DefaultFinal == {"meeting_notes", "composite_note"}

\* a custom Final slug, run through TemplateAnalyzer
CustomFinal == {"custom_final"}

StageASlugs == DefaultStageA

StageBSlugs == DefaultStageB

FinalSlugs == DefaultFinal \cup CustomFinal

GroupSlugs == StageASlugs \cup StageBSlugs

StageOf(a) == IF a \in StageASlugs THEN "stage_a" ELSE IF a \in StageBSlugs THEN "stage_b" ELSE "final"

(* ---------------------------------------------------------------------- *)
(* Records of the job document                                             *)
(* ---------------------------------------------------------------------- *)

\* an analyzer entry of stageA / stageB / final; st = "absent" is a missing key,
\* tok is token_usage.total_tokens with None counted as 0
Absent == [st |-> "absent", tok |-> 0]

Processing == [st |-> "processing", tok |-> 0]

\* the entry written by the except branch of an analyzer task
ErrorRecord == [st |-> "error", tok |-> 0]

\* what _load_status returns when the key does not exist: {}
EmptyDoc == [status |-> "none", stageA |-> [a \in StageASlugs |-> Absent], stageB |-> [b \in StageBSlugs |-> Absent], final |-> [f \in FinalSlugs |-> Absent], finalStatus |-> "none", total |-> 0]

\* the document api_analyze stores at submission
QueuedDoc == [EmptyDoc EXCEPT !.status = "queued"]

\* the document run_parallel_pipeline builds before anything else
InitialStatusDoc == [EmptyDoc EXCEPT !.status = "processing"]

\* AnalysisResult as returned by analyze_sync, reduced to status and token usage
Tokens == 1..MaxTokens

AnalyzeOutcomes == {[st |-> "completed", tok |-> t] : t \in Tokens} \cup {[st |-> "error", tok |-> 0]} \cup {[st |-> "error", tok |-> t] : t \in Tokens}

(* ---------------------------------------------------------------------- *)
(* State                                                                   *)
(* ---------------------------------------------------------------------- *)

VARIABLES
    redis,            \* the JSON document stored under job:<job_id>
    events,           \* bag of the progress events published so far
    payload,          \* the submitted payload
    chain,            \* which link of the Celery chain is running
    storeFaults,      \* number of Redis operations that raised
    pcT,              \* position of each Stage A / Stage B analyzer task
    docT,             \* status_doc of each analyzer task
    resT,             \* result_data of each analyzer task
    retT,             \* return value of each analyzer task (the chord's results)
    stage_a_results,  \* return value of complete_stage_a
    all_results,      \* return value of complete_stage_b
    status_doc,       \* status_doc of the chain link that is running
    pcF,              \* position inside run_final_stage
    curF,             \* the Final analyzer being run
    resF,             \* its AnalysisResult
    final_result,     \* return value of run_final_stage
    prompted,         \* analyzers whose format_prompt built a prompt for the LLM
    files,            \* the files of output/jobs/<job_id>, as <<path, content>>
    fileFaults,       \* number of file writes that raised
    sem,              \* the asyncio.Semaphore of run_stage_concurrently
    pcAsync,          \* position of each coroutine of run_stage_concurrently
    pcGroup,          \* position of each task of a Celery group in the worker pool
    sections,         \* build_fair_combined_context: the sections, each a text of so many characters
    total_budget_tokens,  \* its token budget
    min_per_analyzer, \* its minimum per analyzer
    allocations,      \* its allocations, one per section
    after_counts,     \* the token count of each section as it stands in the combined context
    pcCombine,        \* position inside build_fair_combined_context
    summarize_args,   \* summarize_text: its arguments
    llm_calls,        \* the complete_sync calls it has made, by prompt
    chunks_left,      \* the chunks its map loop has still to summarize
    debug_mode,       \* debug["mode"]
    start,            \* chunk_text_by_tokens: the token at which the window starts
    chunks,           \* chunk_text_by_tokens: len(chunks)
    caught,           \* the exception the try block of summarize_text ended with
    pcSummarize,      \* position inside summarize_text
    aggregate_args,   \* insight aggregation: the items the extraction passes find and the LLM's items
    insights,         \* the items aggregate_insights returned to run_final_stage
    dashboard,        \* the items written to insight_dashboard.json
    insights_again,   \* the items a second call of aggregate_insights returned
    pcAggregate,      \* position inside the aggregation block
    runner_args,      \* analyze_sync of each of two jobs: the analyzer and save_intermediate
    pcRun,            \* position of each job's analyzer inside analyze_sync
    result_status,    \* result.status of each
    clock,            \* datetime.now(), in seconds
    written,          \* the intermediate files written, each with the job that wrote it
    llm_config,       \* LLMConfig of the workers
    cache,            \* self.cache of each worker's CachedLLMClient
    cache_file,       \* the entries of ./cache/llm_cache.json
    call,             \* the complete_sync call each worker is making
    results,          \* the analyzer result and the transcript segments aggregate_insights is given
    collected,        \* the InsightItems aggregate_insights has collected
    pcExtract         \* position inside aggregate_insights

vars == <<redis, events, payload, chain, storeFaults, pcT, docT, resT, retT, stage_a_results, all_results, status_doc, pcF, curF, resF, final_result, prompted, files, fileFaults, sem, pcAsync, pcGroup, sections, total_budget_tokens, min_per_analyzer, allocations, after_counts, pcCombine, summarize_args, llm_calls, chunks_left, debug_mode, start, chunks, caught, pcSummarize, aggregate_args, insights, dashboard, insights_again, pcAggregate, runner_args, pcRun, result_status, clock, written, llm_config, cache, cache_file, call, results, collected, pcExtract>>

jobDir == <<files, fileFaults>>

poolVars == <<sem, pcAsync, pcGroup>>

mainVars == <<redis, events, payload, chain, storeFaults, pcT, docT, resT, retT, stage_a_results, all_results, status_doc, pcF, curF, resF, final_result, prompted, files, fileFaults>>

runnerVars == <<runner_args, pcRun, result_status, clock, written>>

aggregatorVars == <<aggregate_args, insights, dashboard, insights_again, pcAggregate>>

summarizerVars == <<summarize_args, llm_calls, chunks_left, debug_mode, start, chunks, caught, pcSummarize>>

combinerVars == <<sections, total_budget_tokens, min_per_analyzer, allocations, after_counts, pcCombine>>

extractorVars == <<results, collected, pcExtract>>

clientVars == <<llm_config, cache, cache_file, call>>

\* the state of the utilities, which no step of the pipeline model touches
calcVars == <<combinerVars, summarizerVars, aggregatorVars, runnerVars, clientVars, extractorVars>>

\* what a step of build_fair_combined_context leaves alone
exceptCombiner == <<mainVars, poolVars, summarizerVars, aggregatorVars, runnerVars, clientVars, extractorVars>>

\* what a step of summarize_text leaves alone
exceptSummarizer == <<mainVars, poolVars, combinerVars, aggregatorVars, runnerVars, clientVars, extractorVars>>

\* what a step of the insight aggregation leaves alone
exceptAggregator == <<mainVars, poolVars, combinerVars, summarizerVars, runnerVars, clientVars, extractorVars>>

\* what a step of analyze_sync leaves alone
exceptRunner == <<mainVars, poolVars, combinerVars, summarizerVars, aggregatorVars, clientVars, extractorVars>>

\* what a step of the LLM client leaves alone
exceptClient == <<mainVars, poolVars, combinerVars, summarizerVars, aggregatorVars, runnerVars, extractorVars>>

\* what a step of the extraction passes leaves alone
exceptExtractor == <<mainVars, poolVars, combinerVars, summarizerVars, aggregatorVars, runnerVars, clientVars>>

groupVars == <<pcT, docT, resT, retT>>

finalVars == <<status_doc, pcF, curF, resF, final_result>>

\* value of a task argument or result that has not been produced yet
None == [none |-> TRUE]

NoPayload == [kind |-> "none", stageA |-> {}, stageB |-> {}, final |-> {}]

(* ---------------------------------------------------------------------- *)
(* Event bus (src/src/app/sockets.py)                                      *)
(* ---------------------------------------------------------------------- *)

Event(type, stage, analyzer) == <<type, stage, analyzer>>

emit_progress(e) == events' = events (+) SetToBag({e})

Published(e) == CopiesIn(e, events)

job_queued == Event("job.queued", "-", "-")

analyzer_started(a) == Event("analyzer.started", StageOf(a), a)

analyzer_completed(a) == Event("analyzer.completed", StageOf(a), a)

analyzer_error(a) == Event("analyzer.error", StageOf(a), a)

stage_completed(s) == Event("stage.completed", s, "-")

job_completed == Event("job.completed", "-", "-")

job_error == Event("job.error", "-", "-")

(* ---------------------------------------------------------------------- *)
(* Job store (Redis)                                                       *)
(* ---------------------------------------------------------------------- *)

\* outcomes of one Redis operation: TRUE = it raises
StoreRaises == IF storeFaults < MaxStoreFaults THEN {FALSE, TRUE} ELSE {FALSE}

_load_status == redis

_save_status(data) == redis' = data

Fault(raises) == storeFaults' = IF raises THEN storeFaults + 1 ELSE storeFaults

(* ---------------------------------------------------------------------- *)
(* Job directory output/jobs/<job_id>                                      *)
(* ---------------------------------------------------------------------- *)

\* outcomes of one Path.write_text: TRUE = it raises
FileRaises == IF fileFaults < MaxFileFaults THEN {FALSE, TRUE} ELSE {FALSE}

\* Path.write_text: the file is created or replaced
write_text(fs, path, content) == {f \in fs : f[1] # path} \cup {<<path, content>>}

\* Path.exists
Exists(path) == \E f \in files : f[1] = path

\* the "status" member of final_status.json, "none" when the file is missing
FinalStatusJson == IF Exists("final_status.json") THEN (CHOOSE f \in files : f[1] = "final_status.json")[2] ELSE "none"

FileFault(raises) == fileFaults' = IF raises THEN fileFaults + 1 ELSE fileFaults

\* final/<name>.md of a Final analyzer
FinalFile(f) == IF f = "meeting_notes" THEN "final/meeting_notes.md" ELSE IF f = "composite_note" THEN "final/composite_note.md" ELSE "final/custom_final.md"

DashboardFiles == {"final/insight_dashboard.json", "final/insight_dashboard.md", "final/insight_dashboard.csv"}

(* ---------------------------------------------------------------------- *)
(* Concurrency limit of a stage                                            *)
(* ---------------------------------------------------------------------- *)

\* ProcessingConfig.max_concurrent
max_concurrent == 3

\* the analyzers of one stage with the built-in selection: four of them
StageTasks == 1..4

PoolInit ==
    /\ sem = max_concurrent
    /\ pcAsync = [i \in StageTasks |-> "created"]
    /\ pcGroup = [i \in StageTasks |-> "queued"]

(* ---------------------------------------------------------------------- *)
(* Fair-share combined context (src/src/utils/context_builder.py)          *)
(* A text is modelled by its number of characters: text[:k] of a text of   *)
(* len characters has min(k, len) characters                               *)
(* ---------------------------------------------------------------------- *)

max(a, b) == IF a >= b THEN a ELSE b

min(a, b) == IF a <= b THEN a ELSE b

\* LLMClient.count_tokens without a tokenizer: max(1, ceil(len(text) / 4))
count_tokens(len) == max(1, (len + 3) \div 4)

\* int(round(num / den)) for num >= 0, den > 0: Python rounds halves to even
round(num, den) ==
    LET q == num \div den
        r == num % den
    IN IF 2 * r < den THEN q
       ELSE IF 2 * r > den THEN q + 1
       ELSE IF q % 2 = 0 THEN q ELSE q + 1

RECURSIVE sum(_)
\* sum(allocations.values())
sum(seq) == IF seq = <<>> THEN 0 ELSE Head(seq) + sum(Tail(seq))

\* _limit_by_tokens: the characters kept of a text of len characters
limit_by_tokens(len, max_tokens) ==
    LET tokens == count_tokens(len)
    IN IF max_tokens <= 0 THEN len
       ELSE IF tokens <= max_tokens THEN len
       ELSE LET est_len == IF 20 * max_tokens >= max(tokens, 1)
                             THEN max(1, (len * max_tokens) \div max(tokens, 1))
                             ELSE max(1, len \div 20)
            IN min(est_len, len)

per_counts == [i \in DOMAIN sections |-> count_tokens(sections[i])]

total_tokens == sum(per_counts)

\* the branch build_fair_combined_context takes
Budgeted == total_budget_tokens > 0 /\ total_tokens > total_budget_tokens

n_sections == max(1, Len(sections))

min_per ==
    IF min_per_analyzer * n_sections > total_budget_tokens
      THEN max(1, total_budget_tokens \div n_sections)
      ELSE min_per_analyzer

remaining == total_budget_tokens - min_per * n_sections

weights == [i \in DOMAIN sections |-> max(0, per_counts[i] - min_per) + 1]

weight_sum == sum(weights)

initial_allocation(i) ==
    max(1, min_per + IF remaining > 0 /\ weight_sum > 0
                       THEN round(remaining * weights[i], weight_sum)
                       ELSE 0)

\* no budget or everything fits: the sections are concatenated as they are
combine_as_is ==
    /\ pcCombine = "count"
    /\ ~Budgeted
    /\ allocations' = per_counts
    /\ after_counts' = per_counts
    /\ pcCombine' = "done"
    /\ UNCHANGED <<exceptCombiner, sections, total_budget_tokens, min_per_analyzer>>

\* "Initial allocations"
combine_allocate ==
    /\ pcCombine = "count"
    /\ Budgeted
    /\ allocations' = [i \in DOMAIN sections |-> initial_allocation(i)]
    /\ pcCombine' = "fix"
    /\ UNCHANGED <<exceptCombiner, sections, total_budget_tokens, min_per_analyzer, after_counts>>

\* "Fix rounding so sum equals budget"
combine_fix_rounding ==
    /\ pcCombine = "fix"
    /\ LET diff == total_budget_tokens - sum(allocations)
           last == Len(sections)
       IN allocations' = IF diff # 0
                           THEN [allocations EXCEPT ![last] = max(1, allocations[last] + diff)]
                           ELSE allocations
    /\ pcCombine' = "trim"
    /\ UNCHANGED <<exceptCombiner, sections, total_budget_tokens, min_per_analyzer, after_counts>>

\* "Trim each section independently and build combined text"
combine_trim ==
    /\ pcCombine = "trim"
    /\ after_counts' = [i \in DOMAIN sections |-> count_tokens(limit_by_tokens(sections[i], allocations[i]))]
    /\ pcCombine' = "done"
    /\ UNCHANGED <<exceptCombiner, sections, total_budget_tokens, min_per_analyzer, allocations>>

build_fair_combined_context ==
    \/ combine_as_is
    \/ combine_allocate
    \/ combine_fix_rounding
    \/ combine_trim

\* no combined context is being built
CombinerIdle ==
    /\ sections = <<>>
    /\ total_budget_tokens = 0
    /\ min_per_analyzer = 1
    /\ allocations = <<>>
    /\ after_counts = <<>>
    /\ pcCombine = "idle"

\* the Stage A results, the budget and the minimum a Stage B prompt is built with
CombinerInputs ==
    /\ sections \in UNION {[1..k -> SectionLens] : k \in 1..MaxSections}
    /\ total_budget_tokens \in 0..MaxBudget
    /\ min_per_analyzer \in 1..MaxMinPer
    /\ allocations = <<>>
    /\ after_counts = <<>>
    /\ pcCombine = "count"

(* ---------------------------------------------------------------------- *)
(* The LLM client (src/src/llm_client.py).  Every worker process holds one *)
(* CachedLLMClient; all of them load and save ./cache/llm_cache.json.      *)
(* A keyword argument is the set of the values passed: {} when it is not   *)
(* passed.  sha256 of the key's JSON text is taken to be injective, so a   *)
(* key is the dictionary that is hashed                                    *)
(* ---------------------------------------------------------------------- *)

\* the worker processes
Workers == {"w1", "w2"}

\* LLMConfig: the configured model is read from OPENAI_MODEL
ConfigModels == {"gpt-4o-mini", "gpt-5"}

LLMConfig(model) == [model |-> model, temperature |-> 1, max_tokens |-> 8000, reasoning_effort |-> "medium", text_verbosity |-> "medium"]

\* kwargs.get(name, default)
get(kw, default) == IF kw = {} THEN default ELSE CHOOSE v \in kw : TRUE

\* what the provider can answer: the text and usage.total_tokens
Responses == {[text |-> "t1", total_tokens |-> 10], [text |-> "t2", total_tokens |-> 20]}

\* why an attempt failed: a timeout or rate limit, or an invalid request or
\* authentication error
Failures == {"transient", "permanent"}

\* the calls made of complete_sync: an analyzer's call with temperature 0, and
\* the same call with one argument changed
BaseRequest == [prompt |-> "p1", system_prompt |-> "None", model |-> {}, temperature |-> {0}, max_tokens |-> {}, reasoning_effort |-> {}, text_verbosity |-> {}]

Requests == {BaseRequest, [BaseRequest EXCEPT !.prompt = "p2"], [BaseRequest EXCEPT !.system_prompt = "s1"], [BaseRequest EXCEPT !.model = {"None"}], [BaseRequest EXCEPT !.temperature = {}], [BaseRequest EXCEPT !.max_tokens = {512}], [BaseRequest EXCEPT !.reasoning_effort = {"low"}]}

\* _get_cache_key: {} is None; otherwise the dictionary that is hashed
get_cache_key_any_temperature(config, q) ==
    {[model |-> get(q.model, config.model), prompt |-> q.prompt, system_prompt |-> q.system_prompt, max_tokens |-> get(q.max_tokens, config.max_tokens), temperature |-> 0, extra |-> IF config.model = "gpt-5" THEN <<get(q.reasoning_effort, config.reasoning_effort), get(q.text_verbosity, config.text_verbosity)>> ELSE <<>>]}

\* _get_cache_key: None unless the temperature of the call is 0
get_cache_key(config, q) ==
    IF get(q.temperature, config.temperature) # 0 THEN {}
    ELSE {[model |-> get(q.model, config.model), prompt |-> q.prompt, system_prompt |-> q.system_prompt, max_tokens |-> get(q.max_tokens, config.max_tokens), temperature |-> 0, extra |-> IF config.model = "gpt-5" THEN <<get(q.reasoning_effort, config.reasoning_effort), get(q.text_verbosity, config.text_verbosity)>> ELSE <<>>]}

\* @retry(stop=stop_after_attempt(3), ...)
stop_after_attempt == 3

\* model_for_call = kwargs.get('model', self.config.model)
model_for_call(config, kw_model) == get(kw_model, config.model)

\* model_for_call.startswith('gpt-5') raises AttributeError on None
startswith_raises(model) == model = "None"

\* the entry of self.cache under a key, as a set of at most one entry
cached(entries, key) == {e \in entries : {e.key} = key}

\* self.cache[cache_key] = {...}
put(entries, key, response, token_usage) ==
    {e \in entries : {e.key} # key} \cup {[key |-> k, response |-> response, token_usage |-> token_usage] : k \in key}

\* a call that is not being made
NoCall == [pc |-> "new", request |-> BaseRequest, cache_key |-> {}, attempts |-> 0, failure |-> "None", response |-> "None", token_usage |-> [total_tokens |-> 0, max_tokens |-> 0], calls |-> 0]

\* CachedLLMClient.__init__ and _load_cache: the client of a worker is built
\* on its first get_llm_client(); an unreadable file leaves the cache empty
load_cache(w, fails) ==
    /\ call[w].pc = "new"
    /\ cache' = [cache EXCEPT ![w] = IF fails THEN {} ELSE cache_file]
    /\ call' = [call EXCEPT ![w].pc = "idle"]
    /\ UNCHANGED <<exceptClient, llm_config, cache_file>>

\* CachedLLMClient.complete_sync up to the provider call: a cache hit returns
\* the stored response; otherwise LLMClient.complete_sync picks the API
complete_sync(w, q) ==
    /\ call[w].pc = "idle"
    /\ call[w].calls < MaxCalls
    /\ LET key == get_cache_key(llm_config, q)
           hit == cached(cache[w], key)
           started == [call[w] EXCEPT !.request = q, !.cache_key = key, !.attempts = 0, !.failure = "None", !.calls = @ + 1]
       IN call' = [call EXCEPT ![w] =
              IF hit # {}
                THEN LET e == CHOOSE e \in hit : TRUE
                     IN [started EXCEPT !.pc = "returned", !.response = e.response, !.token_usage = e.token_usage]
              ELSE IF startswith_raises(model_for_call(llm_config, q.model))
                THEN [started EXCEPT !.pc = "raised", !.response = "None"]
              ELSE IF model_for_call(llm_config, q.model) = "gpt-5"
                THEN [started EXCEPT !.pc = "responses", !.response = "None"]
              ELSE [started EXCEPT !.pc = "chat", !.response = "None"]]
    /\ UNCHANGED <<exceptClient, llm_config, cache, cache_file>>

\* the usage of a response, with the max_tokens of the call echoed in it
usage_of(config, q, r) == [total_tokens |-> r.total_tokens, max_tokens |-> get(q.max_tokens, config.max_tokens)]

\* one attempt of _make_api_call_sync under @retry(stop_after_attempt(3),
\* retry_if_exception_type((Exception,))): any exception is retried until the
\* third attempt, whose failure is raised
make_api_call_sync(w, failed, r) ==
    /\ call[w].pc = "chat"
    /\ call' = [call EXCEPT ![w] =
          IF failed = "None"
            THEN [@ EXCEPT !.pc = "completed", !.attempts = @ + 1, !.response = r.text, !.token_usage = usage_of(llm_config, call[w].request, r)]
          ELSE [@ EXCEPT !.pc = IF call[w].attempts + 1 >= stop_after_attempt THEN "raised" ELSE "chat", !.attempts = @ + 1, !.failure = failed]]
    /\ UNCHANGED <<exceptClient, llm_config, cache, cache_file>>

\* _make_responses_call_sync has no retry decorator: one attempt
make_responses_call_sync(w, failed, r) ==
    /\ call[w].pc = "responses"
    /\ call' = [call EXCEPT ![w] =
          IF failed = "None"
            THEN [@ EXCEPT !.pc = "completed", !.attempts = @ + 1, !.response = r.text, !.token_usage = usage_of(llm_config, call[w].request, r)]
          ELSE [@ EXCEPT !.pc = "raised", !.attempts = @ + 1, !.failure = failed]]
    /\ UNCHANGED <<exceptClient, llm_config, cache, cache_file>>

\* if cache_key: self.cache[cache_key] = {...}
complete_sync_cache(w) ==
    /\ call[w].pc = "completed"
    /\ IF call[w].cache_key # {}
         THEN /\ cache' = [cache EXCEPT ![w] = put(@, call[w].cache_key, call[w].response, call[w].token_usage)]
              /\ call' = [call EXCEPT ![w].pc = "save"]
         ELSE /\ call' = [call EXCEPT ![w].pc = "returned"]
              /\ UNCHANGED cache
    /\ UNCHANGED <<exceptClient, llm_config, cache_file>>

\* _save_cache: the whole of self.cache replaces the file; a failure is logged
\* and leaves the file as it was or truncated, which loads as an empty cache
save_cache(w, fails, truncated) ==
    /\ call[w].pc = "save"
    /\ cache_file' = IF ~fails THEN cache[w] ELSE IF truncated THEN {} ELSE cache_file
    /\ (truncated => fails)
    /\ call' = [call EXCEPT ![w].pc = "returned"]
    /\ UNCHANGED <<exceptClient, llm_config, cache>>

\* the call is over: its result or its exception is with the caller
complete_sync_return(w) ==
    /\ call[w].pc \in {"returned", "raised"}
    /\ call' = [call EXCEPT ![w] = [NoCall EXCEPT !.pc = "idle", !.calls = call[w].calls]]
    /\ UNCHANGED <<exceptClient, llm_config, cache, cache_file>>

\* no client has been built
ClientIdle ==
    /\ llm_config = LLMConfig("gpt-4o-mini")
    /\ cache = [w \in Workers |-> {}]
    /\ cache_file = {}
    /\ call = [w \in Workers |-> [NoCall EXCEPT !.pc = "off"]]

\* one worker is started, with either model configured and no cache file yet
ClientInputs ==
    /\ llm_config \in {LLMConfig(m) : m \in ConfigModels}
    /\ cache = [w \in Workers |-> {}]
    /\ cache_file = {}
    /\ call = [w \in Workers |-> IF w = "w1" THEN NoCall ELSE [NoCall EXCEPT !.pc = "off"]]

\* the requests whose responses are cached
CacheableRequests == {BaseRequest, [BaseRequest EXCEPT !.prompt = "p2"]}

\* two workers are started on the same cache directory
SharedCacheInputs ==
    /\ llm_config = LLMConfig("gpt-4o-mini")
    /\ cache = [w \in Workers |-> {}]
    /\ cache_file = {}
    /\ call = [w \in Workers |-> NoCall]

(* ---------------------------------------------------------------------- *)
(* Map-reduce summarizer (src/src/utils/summarizer.py)                     *)
(* A text is its number of characters; complete_sync is one call of the    *)
(* LLM client, whatever it retries inside                                  *)
(* ---------------------------------------------------------------------- *)

NoCalls == [single |-> 0, map |-> 0, reduce |-> 0]

\* _count_tokens(llm_client, text): what the client's tokenizer counts, which
\* is max(1, ceil(len / 4)) only when tiktoken is not there
text_tokens == summarize_args.tokens

\* _approx_slice_by_tokens(text, start_tok, end_tok): the length of
\* text[start_tok * 4 : end_tok * 4]
approx_slice_by_tokens(len, start_tok, end_tok) ==
    LET start_idx == max(0, start_tok * 4)
        end_idx == max(start_idx, end_tok * 4)
    IN max(0, min(len, end_idx) - min(len, start_idx))

\* the single pass taken for the texts of one chunk only
single_pass_within_chunk == text_tokens <= summarize_args.map_chunk_tokens

\* if total_tokens <= max(1, single_pass_max_tokens)
single_pass == text_tokens <= max(1, summarize_args.single_pass_max_tokens)

\* complete_sync(..., model=model or None) as the summarizer sees it: the
\* exception of the client when the model passed is None, of the provider
\* when it fails, and none otherwise
complete_sync_raising(model, failed) ==
    IF startswith_raises(model_for_call(llm_config, {model})) THEN "client"
    ELSE IF failed = "provider" THEN "provider"
    ELSE "None"

\* what can go wrong in one turn: the provider fails, or the write of the
\* artifact does, which needs a job_id
TurnFails(model, failed) ==
    /\ failed \in {"None", "provider", "write"}
    /\ failed = "write" => summarize_args.job_id
    /\ startswith_raises(model_for_call(llm_config, {model})) => failed = "None"

\* the exception the try block ends with, if any
raised_in_turn(model, failed) ==
    IF complete_sync_raising(model, failed) # "None" THEN complete_sync_raising(model, failed) ELSE failed

\* if job_id: the directory intermediate/summaries is made, before the try block
summarize_ensure_dir(raises) ==
    /\ pcSummarize = "start"
    /\ IF summarize_args.job_id
         THEN pcSummarize' = IF raises THEN "raised" ELSE "try"
         ELSE ~raises /\ pcSummarize' = "try"
    /\ UNCHANGED <<exceptSummarizer, summarize_args, llm_calls, chunks_left, debug_mode, start, chunks, caught>>

\* the single-pass branch: one completion, then the artifact is written
summarize_single_pass(failed) ==
    /\ pcSummarize = "try"
    /\ single_pass
    /\ TurnFails(summarize_args.map_model, failed)
    /\ debug_mode' = "single_pass"
    /\ llm_calls' = [llm_calls EXCEPT !.single = @ + 1]
    /\ caught' = raised_in_turn(summarize_args.map_model, failed)
    /\ pcSummarize' = IF caught' # "None" THEN "except" ELSE "returned"
    /\ UNCHANGED <<exceptSummarizer, summarize_args, chunks_left, start, chunks>>

\* the map-reduce branch is entered and chunk_text_by_tokens is called: an
\* empty text gives no chunk, a text of at most chunk_tokens tokens one chunk,
\* and any other text goes through the while loop
chunk_text_by_tokens ==
    /\ pcSummarize = "try"
    /\ ~single_pass
    /\ debug_mode' = "map_reduce"
    /\ start' = 0
    /\ IF summarize_args.text = 0
         THEN chunks' = 0 /\ chunks_left' = 0 /\ pcSummarize' = "map"
         ELSE IF text_tokens <= summarize_args.map_chunk_tokens
           THEN chunks' = 1 /\ chunks_left' = 1 /\ pcSummarize' = "map"
           ELSE chunks' = 0 /\ chunks_left' = 0 /\ pcSummarize' = "while"
    /\ UNCHANGED <<exceptSummarizer, summarize_args, llm_calls, caught>>

\* one turn of while start < total_tokens: the window is appended if it is not
\* empty, and the next one starts overlap_tokens before its end
chunk_text_while ==
    /\ pcSummarize = "while"
    /\ chunks < MaxChunks
    /\ LET end == min(text_tokens, start + summarize_args.map_chunk_tokens)
           chunk == approx_slice_by_tokens(summarize_args.text, start, end)
           appended == IF chunk > 0 THEN chunks + 1 ELSE chunks
       IN /\ chunks' = appended
          /\ IF end >= text_tokens
               THEN pcSummarize' = "map" /\ chunks_left' = appended /\ UNCHANGED start
               ELSE /\ start' = max(0, end - summarize_args.map_overlap_tokens)
                    /\ IF start' >= text_tokens
                         THEN pcSummarize' = "map" /\ chunks_left' = appended
                         ELSE pcSummarize' = "while" /\ UNCHANGED chunks_left
    /\ UNCHANGED <<exceptSummarizer, summarize_args, llm_calls, debug_mode, caught>>

\* one turn of the map loop: a chunk is summarized and its artifact written
summarize_map(failed) ==
    /\ pcSummarize = "map"
    /\ chunks_left > 0
    /\ TurnFails(summarize_args.map_model, failed)
    /\ llm_calls' = [llm_calls EXCEPT !.map = @ + 1]
    /\ chunks_left' = chunks_left - 1
    /\ caught' = raised_in_turn(summarize_args.map_model, failed)
    /\ pcSummarize' = IF caught' # "None" THEN "except" ELSE "map"
    /\ UNCHANGED <<exceptSummarizer, summarize_args, debug_mode, start, chunks>>

\* the reduce call over the chunk summaries
summarize_reduce(failed) ==
    /\ pcSummarize = "map"
    /\ chunks_left = 0
    /\ TurnFails(summarize_args.reduce_model, failed)
    /\ llm_calls' = [llm_calls EXCEPT !.reduce = @ + 1]
    /\ caught' = raised_in_turn(summarize_args.reduce_model, failed)
    /\ pcSummarize' = IF caught' # "None" THEN "except" ELSE "returned"
    /\ UNCHANGED <<exceptSummarizer, summarize_args, chunks_left, debug_mode, start, chunks>>

\* except Exception: the head of the text is returned; the write of the
\* fallback artifact is not guarded
summarize_fallback(raises) ==
    /\ pcSummarize = "except"
    /\ IF raises
         THEN summarize_args.job_id /\ pcSummarize' = "raised" /\ UNCHANGED debug_mode
         ELSE pcSummarize' = "returned" /\ debug_mode' = "fallback"
    /\ UNCHANGED <<exceptSummarizer, summarize_args, llm_calls, chunks_left, start, chunks, caught>>

TurnOutcomes == {"None", "provider", "write"}

summarize_text ==
    \/ \E raises \in BOOLEAN : summarize_ensure_dir(raises)
    \/ \E failed \in TurnOutcomes : summarize_single_pass(failed)
    \/ chunk_text_by_tokens
    \/ chunk_text_while
    \/ \E failed \in TurnOutcomes : summarize_map(failed)
    \/ \E failed \in TurnOutcomes : summarize_reduce(failed)
    \/ \E raises \in BOOLEAN : summarize_fallback(raises)

\* nothing is being summarized
SummarizerIdle ==
    /\ summarize_args = [text |-> 0, tokens |-> 0, single_pass_max_tokens |-> 0, map_chunk_tokens |-> 1, map_overlap_tokens |-> 0, job_id |-> FALSE, map_model |-> "None", reduce_model |-> "None"]
    /\ llm_calls = NoCalls
    /\ chunks_left = 0
    /\ debug_mode = "None"
    /\ start = 0
    /\ chunks = 0
    /\ caught = "None"
    /\ pcSummarize = "idle"

\* the summary models of the configuration: None unless overridden
SummaryModels == {"None", "gpt-4o-mini"}

\* the texts and options summarize_text is called with: a text has a length
\* and the number of tokens the tokenizer counts in it, at least one when it
\* is not empty
SummarizerInputs ==
    /\ summarize_args \in {a \in [text : {4 * t : t \in 0..MaxTextTokens}, tokens : 0..MaxTextTokens, single_pass_max_tokens : 0..MaxSinglePass, map_chunk_tokens : 1..MaxChunkTokens, map_overlap_tokens : 0..MaxChunkTokens, job_id : BOOLEAN, map_model : SummaryModels, reduce_model : SummaryModels] : IF a.text = 0 THEN a.tokens <= 1 ELSE a.tokens >= 1}
    /\ llm_calls = NoCalls
    /\ chunks_left = 0
    /\ debug_mode = "None"
    /\ start = 0
    /\ chunks = 0
    /\ caught = "None"
    /\ pcSummarize = "start"

(* ---------------------------------------------------------------------- *)
(* Insight aggregation (src/src/utils/insight_aggregator.py,               *)
(* src/src/utils/insight_llm.py and the aggregation block of               *)
(* run_final_stage).  A text is a sequence of characters                   *)
(* ---------------------------------------------------------------------- *)

\* Python's None among the texts
PyNone == <<"None">>

\* a or b
or(a, b) == IF a = PyNone \/ a = <<>> THEN b ELSE a

lower_char(c) == CASE c = "A" -> "a" [] c = "S" -> "s" [] OTHER -> c

\* str.lower
lower(text) == [i \in DOMAIN text |-> lower_char(text[i])]

RECURSIVE lstrip(_)
lstrip(text) == IF text # <<>> /\ Head(text) = " " THEN lstrip(Tail(text)) ELSE text

RECURSIVE rstrip(_)
rstrip(text) == IF text # <<>> /\ text[Len(text)] = " " THEN rstrip(SubSeq(text, 1, Len(text) - 1)) ELSE text

\* str.strip
strip(text) == rstrip(lstrip(text))

\* str(x): None reads "None"
str(x) == IF x = PyNone THEN <<"N", "o", "n", "e">> ELSE x

\* uuid.uuid4(): any of the identifiers
Uuids == {1, 2}

\* InsightItem(...).to_dict(): the keys of the dashboard item, title and due_date
\* among them, summary and due not
to_dict(it, insight_id) ==
    [insight_id |-> insight_id, type |-> it.type, title |-> it.title, summary |-> PyNone, owner |-> it.owner, due_date |-> it.due_date, due |-> PyNone]

\* an item of the LLM's answer, as the schema of _schema_text has it: summary
\* and due, neither title nor due_date nor insight_id
llm_item(type, summary, owner, due) ==
    [insight_id |-> 0, type |-> type, title |-> PyNone, summary |-> summary, owner |-> owner, due_date |-> PyNone, due |-> due]

\* the key of the dedupe loop of aggregate_insights
item_key(it) == <<it.type, strip(lower(or(it.title, <<>>))), or(it.owner, PyNone), or(it.due_date, PyNone)>>

\* the key of dedupe_items_dict
dict_key(it) == <<strip(lower(str(it.type))), strip(lower(str(or(or(it.title, it.summary), <<>>)))), it.owner, or(it.due_date, it.due)>>

RECURSIVE unique(_, _, _)
\* "if key not in unique: unique[key] = it", then list(unique.values()): from
\* the i-th item on, the items whose key no earlier item has
unique(items, keys, i) ==
    IF i > Len(items) THEN <<>>
    ELSE (IF \E j \in 1..(i - 1) : keys[j] = keys[i] THEN <<>> ELSE <<items[i]>>) \o unique(items, keys, i + 1)

\* aggregate_insights: every item found is built with a fresh _mk_id(), then
\* the list is deduplicated
aggregate_insights(ids) ==
    LET found == aggregate_args.extracted
        items == [i \in DOMAIN found |-> to_dict(found[i], ids[i])]
    IN unique(items, [i \in DOMAIN items |-> item_key(items[i])], 1)

dedupe_items_dict(items) == unique(items, [i \in DOMAIN items |-> dict_key(items[i])], 1)

\* insights, counts = aggregate_insights(all_results_map, processed)
final_aggregate_insights ==
    /\ pcAggregate = "aggregate"
    /\ \E ids \in [DOMAIN aggregate_args.extracted -> Uuids] : insights' = aggregate_insights(ids)
    /\ pcAggregate' = "llm"
    /\ UNCHANGED <<exceptAggregator, aggregate_args, dashboard, insights_again>>

\* the optional LLM pass and the writing of the dashboard: the LLM's items are
\* appended as they are and the list is deduplicated; when the pass is off or
\* fails, the aggregator's items are written
final_merge_and_write ==
    /\ pcAggregate = "llm"
    /\ dashboard' = IF aggregate_args.llm_ok
                      THEN dedupe_items_dict(insights \o aggregate_args.llm_items)
                      ELSE insights
    /\ pcAggregate' = "written"
    /\ UNCHANGED <<exceptAggregator, aggregate_args, insights, insights_again>>

\* aggregate_insights is called once more with the same results and transcript
aggregate_again ==
    /\ pcAggregate = "written"
    /\ \E ids \in [DOMAIN aggregate_args.extracted -> Uuids] : insights_again' = aggregate_insights(ids)
    /\ pcAggregate' = "done"
    /\ UNCHANGED <<exceptAggregator, aggregate_args, insights, dashboard>>

action == <<"a", "c", "t", "i", "o", "n">>

risk == <<"r", "i", "s", "k">>

\* the items the extraction passes can find in the analyzers' outputs
FoundItems ==
    [type : {action, risk}, title : {<<"S", "h", "i", "p">>, <<" ", "s", "h", "i", "p">>}, owner : {PyNone, <<>>, <<"k", "i", "m">>}, due_date : {PyNone}]

\* the items the LLM can answer with
LlmItems ==
    {llm_item(action, summary, PyNone, due) : summary \in {<<"S", "h", "i", "p">>, <<"f", "i", "x">>}, due \in {PyNone, <<"f", "r", "i">>}}

SeqUpTo(S, k) == UNION {[1..m -> S] : m \in 0..k}

\* no dashboard is being built
AggregatorIdle ==
    /\ aggregate_args = [extracted |-> <<>>, llm_items |-> <<>>, llm_ok |-> FALSE]
    /\ insights = <<>>
    /\ dashboard = <<>>
    /\ insights_again = <<>>
    /\ pcAggregate = "idle"

\* the analyzer results and the answer of the LLM pass of one job
AggregatorInputs ==
    /\ aggregate_args \in {a \in [extracted : SeqUpTo(FoundItems, MaxFound), llm_items : SeqUpTo(LlmItems, MaxLlmItems), llm_ok : BOOLEAN] : ~a.llm_ok => a.llm_items = <<>>}
    /\ insights = <<>>
    /\ dashboard = <<>>
    /\ insights_again = <<>>
    /\ pcAggregate = "aggregate"

(* ---------------------------------------------------------------------- *)
(* The extraction passes and the evidence linking of aggregate_insights    *)
(* (src/src/utils/insight_aggregator.py).  A text is a sequence of         *)
(* symbols: a letter, a space, the prefix "Action:" or an anchor token     *)
(* [#seg-N], each of the last two taken as one symbol                      *)
(* ---------------------------------------------------------------------- *)

\* the tokens ANCHOR_PAT matches
AnchorTokens == {"[#seg-1]", "[#seg-2]"}

\* m.group(1) of an anchor token
seg(token) == IF token = "[#seg-1]" THEN 1 ELSE 2

\* f"#seg-{seg}"
anchor(n) == IF n = 1 THEN "#seg-1" ELSE "#seg-2"

\* evidence.segment_id of an item no segment was chosen for: None
NoSegment == 0

NotAnchorToken(c) == c \notin AnchorTokens

\* ANCHOR_PAT.sub("", text)
sub_anchors(text) == SelectSeq(text, NotAnchorToken)

\* ANCHOR_PAT.search(text): the positions of the anchor tokens
anchor_positions(text) == {i \in DOMAIN text : text[i] \in AnchorTokens}

\* the smallest of a set of numbers that is not empty
first(S) == CHOOSE i \in S : \A j \in S : i <= j

\* _strip_and_capture_anchor(text): (clean_text, anchor)
strip_and_capture_anchor(text) ==
    IF text = <<>> THEN [text |-> <<>>, anchor |-> "None"]
    ELSE IF anchor_positions(text) # {}
      THEN [text |-> strip(strip(sub_anchors(text))), anchor |-> anchor(seg(text[first(anchor_positions(text))]))]
      ELSE [text |-> strip(text), anchor |-> "None"]

\* InsightItem(type="action", title=title) followed by _apply_anchor(it, anchor)
InsightItem(title, transcript_anchor) ==
    [type |-> "action", title |-> title, transcript_anchor |-> transcript_anchor, segment_id |-> NoSegment]

\* _from_json_block, a string entry: the item is appended whatever its title
from_json_string(entry) ==
    LET r == strip_and_capture_anchor(entry)
    IN <<InsightItem(r.text, r.anchor)>>

\* _from_json_block, an object entry {"title": entry}: skipped when the title
\* is empty once stripped
from_json_object(entry) ==
    LET r == strip_and_capture_anchor(strip(entry))
    IN IF r.text = <<>> THEN <<>> ELSE <<InsightItem(r.text, r.anchor)>>

\* _from_structured, an entry of action_items, a string or {"title": entry}:
\* the stripped entry is the title, anchor tokens included
from_canonical(entry) ==
    IF strip(entry) = <<>> THEN <<>> ELSE <<InsightItem(strip(entry), "None")>>

RECURSIVE lstrip_bullets(_)
lstrip_bullets(text) == IF text # <<>> /\ Head(text) \in {" ", "-"} THEN lstrip_bullets(Tail(text)) ELSE text

RECURSIVE rstrip_bullets(_)
rstrip_bullets(text) == IF text # <<>> /\ text[Len(text)] \in {" ", "-"} THEN rstrip_bullets(SubSeq(text, 1, Len(text) - 1)) ELSE text

\* _lines(txt) of a section of one line: [l.strip(" -\t") for l in
\* txt.splitlines() if l.strip()]
lines(txt) == IF strip(txt) = <<>> THEN <<>> ELSE <<rstrip_bullets(lstrip_bullets(txt))>>

\* re.sub(r"^(action|decision|risk)\s*[:\-]\s*", "", ll).strip()
sub_prefix(ll) == IF ll # <<>> /\ Head(ll) = "Action:" THEN strip(Tail(ll)) ELSE strip(ll)

\* _append_or_merge(container, "action", line) of a line with no owner and no
\* due fragment: the item is appended whatever its title
append_or_merge(line) ==
    LET ll == strip(line)
        r == strip_and_capture_anchor(sub_prefix(ll))
    IN IF ll = <<>> THEN <<>> ELSE <<InsightItem(r.text, r.anchor)>>

RECURSIVE pull(_)
\* for l in _lines(txt): _append_or_merge(items, "action", l)
pull(ls) == IF ls = <<>> THEN <<>> ELSE append_or_merge(Head(ls)) \o pull(Tail(ls))

\* _from_structured on sections = {"actions": txt}: the exact-key pull and
\* then the fuzzy-key pull, which the key "actions" matches too
from_sections(txt) == pull(lines(txt)) \o pull(lines(txt))

\* _heuristics_from_text on one line: ACTION_PAT.match wants the prefix and at
\* least one character after it; the title keeps its anchor tokens
heuristics_from_text(raw) ==
    LET l == strip(raw)
    IN IF l # <<>> /\ Head(l) = "Action:" /\ strip(Tail(l)) # <<>>
         THEN <<InsightItem(strip(Tail(l)), "None")>>
         ELSE <<>>

RECURSIVE collapse(_)
\* re.sub(r"\s+", " ", text)
collapse(text) ==
    IF Len(text) < 2 THEN text
    ELSE IF text[1] = " " /\ text[2] = " " THEN collapse(Tail(text))
    ELSE <<text[1]>> \o collapse(Tail(text))

\* needle in hay
contains(needle, hay) == \E k \in 0..(Len(hay) - Len(needle)) : SubSeq(hay, k + 1, k + Len(needle)) = needle

\* _similar_substring(needle, hay)
similar_substring(needle, hay) ==
    /\ needle # <<>>
    /\ hay # <<>>
    /\ contains(SubSeq(collapse(needle), 1, min(40, Len(collapse(needle)))), collapse(hay))

\* the needle of an item: QUOTE_HINT finds the whole title of a title that
\* does not open with a quotation mark
needle_of(it) == SubSeq(lower(it.title), 1, min(120, Len(it.title)))

\* the segments _attach_evidence can choose for an item
matching(it, segments) == {k \in DOMAIN segments : segments[k].text # <<>> /\ similar_substring(needle_of(it), segments[k].text)}

\* _attach_evidence for one item: the first matching segment, if any, sets
\* evidence.segment_id and links.transcript_anchor
attach_evidence(it, segments) ==
    IF matching(it, segments) = {} THEN it
    ELSE LET chosen == segments[first(matching(it, segments))]
         IN [it EXCEPT !.segment_id = chosen.segment_id, !.transcript_anchor = anchor(chosen.segment_id)]

\* pass 0: items.extend(_from_json_block(an, text))
aggregate_json ==
    /\ pcExtract = "json"
    /\ collected' = collected \o (CASE results.path = "json_string" -> from_json_string(results.entry)
                            [] results.path = "json_object" -> from_json_object(results.entry)
                            [] OTHER -> <<>>)
    /\ pcExtract' = "structured"
    /\ UNCHANGED <<exceptExtractor, results>>

\* pass 1: items.extend(_from_structured(an, sd))
aggregate_structured ==
    /\ pcExtract = "structured"
    /\ collected' = collected \o (CASE results.path = "action_items" -> from_canonical(results.entry)
                            [] results.path = "sections" -> from_sections(results.entry)
                            [] OTHER -> <<>>)
    /\ pcExtract' = "heuristics"
    /\ UNCHANGED <<exceptExtractor, results>>

\* pass 2: items.extend(_heuristics_from_text(an, text)); the lines of a JSON
\* block match none of the patterns
aggregate_heuristics ==
    /\ pcExtract = "heuristics"
    /\ collected' = collected \o (IF results.path = "raw_line" THEN heuristics_from_text(results.entry) ELSE <<>>)
    /\ pcExtract' = "evidence"
    /\ UNCHANGED <<exceptExtractor, results>>

\* _attach_evidence(items, segs): every item is looked up in the transcript
aggregate_attach_evidence ==
    /\ pcExtract = "evidence"
    /\ collected' = [i \in DOMAIN collected |-> attach_evidence(collected[i], results.segments)]
    /\ pcExtract' = "dedupe"
    /\ UNCHANGED <<exceptExtractor, results>>

\* the key of the dedupe loop: no item of the model has an owner or a due date
extracted_key(it) == <<it.type, strip(lower(it.title)), PyNone, PyNone>>

\* the dedupe loop, and the list that is returned
aggregate_dedupe ==
    /\ pcExtract = "dedupe"
    /\ collected' = unique(collected, [i \in DOMAIN collected |-> extracted_key(collected[i])], 1)
    /\ pcExtract' = "returned"
    /\ UNCHANGED <<exceptExtractor, results>>

\* the ways an entry reaches the aggregator: a string or an object of the
\* INSIGHTS_JSON block, an entry of structured_data["action_items"], a line of
\* structured_data["sections"]["actions"], a line of raw_output
Paths == {"json_string", "json_object", "action_items", "sections", "raw_line"}

\* the entries: a title, a title with an anchor, an anchor alone, a prefix
\* alone, a prefixed title with an anchor, a blank
Entries == {<<"x">>, <<"x", " ", "[#seg-2]">>, <<"[#seg-2]">>, <<"Action:">>, <<"Action:", " ", "x", " ", "[#seg-2]">>, <<"-", " ", "y", " ", "[#seg-1]">>, <<" ">>, <<>>}

\* the texts of the transcript segments
SegmentTexts == {<<"x">>, <<"a", " ", " ", "y">>, <<"x", " ", "y">>}

\* nothing is being extracted
ExtractorIdle ==
    /\ results = [path |-> "json_string", entry |-> <<>>, segments |-> <<>>]
    /\ collected = <<>>
    /\ pcExtract = "idle"

\* one entry of one analyzer result, and a transcript of two segments or none
ExtractorInputs ==
    /\ results \in [path : Paths, entry : Entries, segments : {<<>>} \cup {<<[segment_id |-> 1, text |-> s1], [segment_id |-> 2, text |-> s2]>> : s1 \in SegmentTexts, s2 \in SegmentTexts}]
    /\ collected = <<>>
    /\ pcExtract = "json"

(* ---------------------------------------------------------------------- *)
(* The analyzer runner (BaseAnalyzer.analyze_sync and                      *)
(* save_intermediate_result in src/src/analyzers/base_analyzer.py), as the *)
(* Stage A and Stage B tasks of two jobs call it at the same time          *)
(* ---------------------------------------------------------------------- *)

Jobs == {"J1", "J2"}

\* the statements of the try block that raise into its except branch
TrySteps == <<"format_prompt", "complete_sync", "normalize", "parse_response", "extract">>

\* the directory save_intermediate_result writes under: output_dir, or a run
\* directory named after the second it is called in when output_dir is None
output_dir_or_run(output_dir, now) == IF output_dir = None THEN <<"output", "runs", now>> ELSE output_dir

\* intermediate_dir / f"{base_filename}{ext}"
intermediate_path(output_dir, now, stage, name, ext) ==
    [dir |-> output_dir_or_run(output_dir, now), sub |-> <<"intermediate", stage>>, file |-> <<name, ext>>]

\* the output_dir the Stage A and Stage B tasks pass to analyze_sync: none
task_output_dir(j) == None

\* a statement of the try block other than normalize_markdown_tables: it
\* returns, or it raises into the except branch; after the last one the result
\* is marked completed
analyze_try(j, raises) ==
    /\ pcRun[j] \in {"format_prompt", "complete_sync", "parse_response", "extract"}
    /\ IF raises
         THEN pcRun' = [pcRun EXCEPT ![j] = "except"] /\ UNCHANGED result_status
         ELSE IF pcRun[j] = "extract"
                THEN /\ result_status' = [result_status EXCEPT ![j] = "completed"]
                     /\ pcRun' = [pcRun EXCEPT ![j] = IF runner_args[j].save_intermediate THEN "save" ELSE "finish"]
                ELSE /\ pcRun' = [pcRun EXCEPT ![j] = TrySteps[1 + CHOOSE i \in DOMAIN TrySteps : TrySteps[i] = pcRun[j]]]
                     /\ UNCHANGED result_status
    /\ UNCHANGED <<exceptRunner, runner_args, clock, written>>

\* normalize_markdown_tables in its own try: what it raises is passed over
analyze_normalize(j, raises) ==
    /\ pcRun[j] = "normalize"
    /\ raises \in BOOLEAN
    /\ pcRun' = [pcRun EXCEPT ![j] = "parse_response"]
    /\ UNCHANGED <<exceptRunner, runner_args, result_status, clock, written>>

\* a save_intermediate_result that lets its exception out
save_intermediate_result_raising(j, fails) ==
    /\ pcRun[j] = "save"
    /\ LET a == runner_args[j]
           json == [path |-> intermediate_path(task_output_dir(j), clock, a.stage, a.name, ".json"), job |-> j]
           md == [path |-> intermediate_path(task_output_dir(j), clock, a.stage, a.name, ".md"), job |-> j]
       IN written' = written \cup (CASE fails = "mkdir" -> {} [] fails = "md" -> {json} [] OTHER -> {json, md})
    /\ pcRun' = [pcRun EXCEPT ![j] = IF fails = "none" THEN "finish" ELSE "raised"]
    /\ UNCHANGED <<exceptRunner, runner_args, result_status, clock>>

\* save_intermediate_result: the .json file, then the .md file; everything
\* it raises is logged inside
save_intermediate_result(j, fails) ==
    /\ pcRun[j] = "save"
    /\ LET a == runner_args[j]
           json == [path |-> intermediate_path(task_output_dir(j), clock, a.stage, a.name, ".json"), job |-> j]
           md == [path |-> intermediate_path(task_output_dir(j), clock, a.stage, a.name, ".md"), job |-> j]
       IN written' = written \cup (CASE fails = "mkdir" -> {} [] fails = "md" -> {json} [] OTHER -> {json, md})
    /\ pcRun' = [pcRun EXCEPT ![j] = "finish"]
    /\ UNCHANGED <<exceptRunner, runner_args, result_status, clock>>

\* except Exception as e
analyze_except(j) ==
    /\ pcRun[j] = "except"
    /\ result_status' = [result_status EXCEPT ![j] = "error"]
    /\ pcRun' = [pcRun EXCEPT ![j] = "finish"]
    /\ UNCHANGED <<exceptRunner, runner_args, clock, written>>

\* the processing time, the preview for the debug log in its own try, return
analyze_return(j, raises) ==
    /\ pcRun[j] = "finish"
    /\ raises \in BOOLEAN
    /\ pcRun' = [pcRun EXCEPT ![j] = "returned"]
    /\ UNCHANGED <<exceptRunner, runner_args, result_status, clock, written>>

\* a second passes
clock_tick ==
    /\ clock < MaxClock
    /\ clock' = clock + 1
    /\ UNCHANGED <<exceptRunner, runner_args, pcRun, result_status, written>>

analyze_sync_steps ==
    \/ \E j \in Jobs, raises \in BOOLEAN : analyze_try(j, raises)
    \/ \E j \in Jobs, raises \in BOOLEAN : analyze_normalize(j, raises)
    \/ \E j \in Jobs, fails \in {"none", "mkdir", "md"} : save_intermediate_result(j, fails)
    \/ \E j \in Jobs : analyze_except(j)
    \/ \E j \in Jobs, raises \in BOOLEAN : analyze_return(j, raises)
    \/ clock_tick

\* the Stage A and Stage B analyzers a job runs
RunnerAnalyzers == {[stage |-> "stage_a", name |-> "say_means"], [stage |-> "stage_b", name |-> "competing_hypotheses"]}

\* no analyzer is running
RunnerIdle ==
    /\ runner_args = [j \in Jobs |-> [stage |-> "stage_a", name |-> "say_means", save_intermediate |-> FALSE]]
    /\ pcRun = [j \in Jobs |-> "idle"]
    /\ result_status = [j \in Jobs |-> "pending"]
    /\ clock = 0
    /\ written = {}

\* each job's task has called analyze_sync: result is built with status PROCESSING
RunnerInputs ==
    /\ runner_args \in [Jobs -> [stage : {"stage_a", "stage_b"}, name : {"say_means", "competing_hypotheses"}, save_intermediate : BOOLEAN]]
    /\ \A j \in Jobs : [stage |-> runner_args[j].stage, name |-> runner_args[j].name] \in RunnerAnalyzers
    /\ pcRun = [j \in Jobs |-> "format_prompt"]
    /\ result_status = [j \in Jobs |-> "processing"]
    /\ clock = 0
    /\ written = {}

(* ---------------------------------------------------------------------- *)
(* Submission and the orchestration task                                   *)
(* ---------------------------------------------------------------------- *)

\* selected.get(stage) or [built-ins]
stage_a_list == IF payload.stageA = {} THEN DefaultStageA ELSE payload.stageA

stage_b_list == IF payload.stageB = {} THEN DefaultStageB ELSE payload.stageB

final_list == IF payload.final = {} THEN DefaultFinal ELSE payload.final

\* the payloads a client posts: the transcript text, only a file id or neither, and a
\* selection per stage ({} selects the built-ins of the stage)
Text(selA, selB, selF) == [kind |-> "text", stageA |-> selA, stageB |-> selB, final |-> selF]

Payloads == {[kind |-> "empty", stageA |-> {}, stageB |-> {}, final |-> {}], [kind |-> "fileOnly", stageA |-> {}, stageB |-> {}, final |-> {}], Text({}, {"first_principles"}, {"meeting_notes"}), Text({"say_means"}, {}, {"custom_final"}), Text({"perspective_perception"}, {"competing_hypotheses"}, {}), Text({"say_means"}, {"first_principles"}, {"composite_note", "custom_final"})}

\* POST /analyze: 400 when neither transcriptText nor fileId is given; otherwise
\* the queued record is stored, job.queued is emitted and run_pipeline is enqueued
api_analyze(p) ==
    /\ chain = "init"
    /\ payload' = p
    /\ IF p.kind = "empty"
         THEN chain' = "rejected" /\ UNCHANGED <<redis, events>>
         ELSE chain' = "queued" /\ _save_status(QueuedDoc) /\ emit_progress(job_queued)
    /\ UNCHANGED <<storeFaults, groupVars, stage_a_results, all_results, finalVars, prompted, jobDir, poolVars, calcVars>>

\* run_parallel_pipeline, first part: emit job.queued and save the initial
\* document; a raising save enters the except branch
rpp_start(raises) ==
    /\ chain = "queued"
    /\ emit_progress(job_queued)
    /\ IF raises
         THEN chain' = "rpp_except" /\ UNCHANGED redis
         ELSE chain' = "rpp_check" /\ _save_status(InitialStatusDoc)
    /\ Fault(raises)
    /\ UNCHANGED <<payload, groupVars, stage_a_results, all_results, finalVars, prompted, jobDir, poolVars, calcVars>>

\* run_parallel_pipeline, second part: an empty transcriptText raises ValueError,
\* otherwise the chain chord(Stage A) | run_stage_b_after_a | run_final_stage |
\* finalize_pipeline is built and applied, which makes the Stage A group runnable.
\* pipeline.apply_async() publishes the tasks of the group one message at a time
\* on the Redis broker: when it raises, the tasks in published are in the queue
\* already, the rest of the group is not, and the except branch is entered
rpp_dispatch(raises, published) ==
    /\ chain = "rpp_check"
    /\ IF payload.kind # "text"
         THEN ~raises /\ published = {} /\ chain' = "rpp_except"
         ELSE IF raises
                THEN published # stage_a_list /\ chain' = "rpp_except"
                ELSE published = stage_a_list /\ chain' = "stage_a"
    /\ pcT' = [a \in GroupSlugs |-> IF a \in published THEN "load1" ELSE pcT[a]]
    /\ Fault(raises)
    /\ UNCHANGED <<redis, events, payload, docT, resT, retT, stage_a_results, all_results, finalVars, prompted, jobDir, poolVars, calcVars>>

\* run_parallel_pipeline, except branch: store status error, then emit job.error;
\* a raising save leaves the task failed before the event
rpp_except(raises) ==
    /\ chain = "rpp_except"
    /\ IF raises
         THEN UNCHANGED <<redis, events>>
         ELSE _save_status([InitialStatusDoc EXCEPT !.status = "error"]) /\ emit_progress(job_error)
    /\ chain' = "failed"
    /\ Fault(raises)
    /\ UNCHANGED <<payload, groupVars, stage_a_results, all_results, finalVars, prompted, jobDir, poolVars, calcVars>>

run_parallel_pipeline ==
    \/ \E raises \in StoreRaises : rpp_start(raises)
    \/ \E raises \in StoreRaises, published \in SUBSET stage_a_list : rpp_dispatch(raises, published)
    \/ \E raises \in StoreRaises : rpp_except(raises)

PipelineInit ==
    /\ redis = EmptyDoc
    /\ events = EmptyBag
    /\ payload = NoPayload
    /\ chain = "init"
    /\ storeFaults = 0
    /\ pcT = [a \in GroupSlugs |-> "idle"]
    /\ docT = [a \in GroupSlugs |-> EmptyDoc]
    /\ resT = [a \in GroupSlugs |-> Absent]
    /\ retT = [a \in GroupSlugs |-> Absent]
    /\ stage_a_results = None
    /\ all_results = None
    /\ status_doc = EmptyDoc
    /\ pcF = "idle"
    /\ curF = "-"
    /\ resF = Absent
    /\ final_result = None
    /\ prompted = {}
    /\ files = {}
    /\ fileFaults = 0
    /\ PoolInit

Init == PipelineInit /\ CombinerIdle /\ SummarizerIdle /\ AggregatorIdle /\ RunnerIdle /\ ClientIdle /\ ExtractorIdle

(* ---------------------------------------------------------------------- *)
(* Stage A and Stage B analyzer tasks                                      *)
(* run_stage_a_analyzer and run_stage_b_analyzer have the same body but    *)
(* for the stage key and the Stage A results Stage B receives              *)
(* ---------------------------------------------------------------------- *)

\* status_doc[stage][analyzer_name] = rec
SetRecord(doc, a, rec) == IF a \in StageASlugs THEN [doc EXCEPT !.stageA[a] = rec] ELSE IF a \in StageBSlugs THEN [doc EXCEPT !.stageB[a] = rec] ELSE [doc EXCEPT !.final[a] = rec]

GetRecord(doc, a) == IF a \in StageASlugs THEN doc.stageA[a] ELSE IF a \in StageBSlugs THEN doc.stageB[a] ELSE doc.final[a]

\* "Update token usage totals": only when the result carries a token_usage
AddTokenUsage(doc, res) == IF res.tok > 0 THEN [doc EXCEPT !.total = @ + res.tok] ELSE doc

\* the analyzer record together with the token totals, as one document update
WriteResult(doc, a, res) == AddTokenUsage(SetRecord(doc, a, res), res)

\* status_doc = _load_status(job_id), first statement of the try block
task_load1(a, raises) ==
    /\ pcT[a] = "load1"
    /\ IF raises
         THEN pcT' = [pcT EXCEPT ![a] = "exc_load"] /\ UNCHANGED docT
         ELSE pcT' = [pcT EXCEPT ![a] = "save1"] /\ docT' = [docT EXCEPT ![a] = _load_status]
    /\ Fault(raises)
    /\ UNCHANGED <<redis, events, payload, chain, resT, retT, stage_a_results, all_results, finalVars, prompted, jobDir, poolVars, calcVars>>

\* status_doc[stage][analyzer_name] = {"status": "processing"}; _save_status
task_save1(a, raises) ==
    /\ pcT[a] = "save1"
    /\ IF raises
         THEN pcT' = [pcT EXCEPT ![a] = "exc_load"] /\ UNCHANGED redis
         ELSE pcT' = [pcT EXCEPT ![a] = "started"] /\ _save_status(SetRecord(docT[a], a, Processing))
    /\ docT' = [docT EXCEPT ![a] = EmptyDoc]
    /\ Fault(raises)
    /\ UNCHANGED <<events, payload, chain, resT, retT, stage_a_results, all_results, finalVars, prompted, jobDir, poolVars, calcVars>>

\* analyzer_started(job_id, stage, analyzer_name)
task_started(a) ==
    /\ pcT[a] = "started"
    /\ emit_progress(analyzer_started(a))
    /\ pcT' = [pcT EXCEPT ![a] = "analyze"]
    /\ UNCHANGED <<redis, payload, chain, storeFaults, docT, resT, retT, stage_a_results, all_results, finalVars, prompted, jobDir, poolVars, calcVars>>

\* previous_analyses as it would be if only the Stage A analyzers that
\* completed were handed to Stage B
stage_a_analyses_completed_only == IF stage_a_results = None THEN {} ELSE {a \in StageASlugs : stage_a_results.stageA[a].st = "completed"}

\* previous_analyses of a Stage B analyzer: one AnalysisResult, built with
\* status COMPLETED, for every key of stage_a_results.get("stageA", {})
stage_a_analyses == IF stage_a_results = None THEN {} ELSE {a \in StageASlugs : stage_a_results.stageA[a].st # "absent"}

\* format_prompt: a Stage B analyzer whose fair-share context is the empty string
\* raises ValueError("No Stage A results provided"); the context is empty exactly
\* when previous_analyses is, since every section starts with its heading.  A
\* Stage A analyzer always has the transcript, a Final analyzer takes any context
format_prompt(a) == IF a \in StageBSlugs /\ stage_a_analyses = {} THEN "ValueError" ELSE "prompt"

\* analyze_sync: never raises; an exception of format_prompt becomes an error
\* result without token usage, otherwise the template is rendered, the LLM is
\* called and the outcome is one of AnalyzeOutcomes
analyze_sync(a) == IF format_prompt(a) = "ValueError" THEN {ErrorRecord} ELSE AnalyzeOutcomes

\* result = analyzer.analyze_sync(ctx, ...)
task_analyze(a, result) ==
    /\ pcT[a] = "analyze"
    /\ result \in analyze_sync(a)
    /\ resT' = [resT EXCEPT ![a] = result]
    /\ prompted' = IF format_prompt(a) = "prompt" THEN prompted \cup {a} ELSE prompted
    /\ pcT' = [pcT EXCEPT ![a] = "load2"]
    /\ UNCHANGED <<redis, events, payload, chain, storeFaults, docT, retT, stage_a_results, all_results, finalVars, jobDir, poolVars, calcVars>>

\* status_doc = _load_status(job_id) before the result is stored
task_load2(a, raises) ==
    /\ pcT[a] = "load2"
    /\ IF raises
         THEN pcT' = [pcT EXCEPT ![a] = "exc_load"] /\ UNCHANGED docT
         ELSE pcT' = [pcT EXCEPT ![a] = "save2"] /\ docT' = [docT EXCEPT ![a] = _load_status]
    /\ Fault(raises)
    /\ UNCHANGED <<redis, events, payload, chain, resT, retT, stage_a_results, all_results, finalVars, prompted, jobDir, poolVars, calcVars>>

\* status_doc[stage][analyzer_name] = result_data; token totals; _save_status
task_save2(a, raises) ==
    /\ pcT[a] = "save2"
    /\ IF raises
         THEN pcT' = [pcT EXCEPT ![a] = "exc_load"] /\ UNCHANGED redis
         ELSE pcT' = [pcT EXCEPT ![a] = "completed"] /\ _save_status(WriteResult(docT[a], a, resT[a]))
    /\ docT' = [docT EXCEPT ![a] = EmptyDoc]
    /\ Fault(raises)
    /\ UNCHANGED <<events, payload, chain, resT, retT, stage_a_results, all_results, finalVars, prompted, jobDir, poolVars, calcVars>>

\* the event an analyzer task of Stage A / Stage B emits after storing its result:
\* analyzer_completed, whatever result.status is
TaskTerminalEvent(a, res) == analyzer_completed(a)

\* analyzer_completed(...); return result_data
task_completed(a) ==
    /\ pcT[a] = "completed"
    /\ emit_progress(TaskTerminalEvent(a, resT[a]))
    /\ retT' = [retT EXCEPT ![a] = resT[a]]
    /\ pcT' = [pcT EXCEPT ![a] = "done"]
    /\ UNCHANGED <<redis, payload, chain, storeFaults, docT, resT, stage_a_results, all_results, finalVars, prompted, jobDir, poolVars, calcVars>>

\* except branch: status_doc = _load_status(job_id), inside try/except pass
task_exc_load(a, raises) ==
    /\ pcT[a] = "exc_load"
    /\ IF raises
         THEN pcT' = [pcT EXCEPT ![a] = "exc_emit"] /\ UNCHANGED docT
         ELSE pcT' = [pcT EXCEPT ![a] = "exc_save"] /\ docT' = [docT EXCEPT ![a] = _load_status]
    /\ Fault(raises)
    /\ UNCHANGED <<redis, events, payload, chain, resT, retT, stage_a_results, all_results, finalVars, prompted, jobDir, poolVars, calcVars>>

\* except branch: store {"status": "error", "error_message": str(e)}
task_exc_save(a, raises) ==
    /\ pcT[a] = "exc_save"
    /\ IF raises
         THEN UNCHANGED redis
         ELSE _save_status(SetRecord(docT[a], a, ErrorRecord))
    /\ pcT' = [pcT EXCEPT ![a] = "exc_emit"]
    /\ docT' = [docT EXCEPT ![a] = EmptyDoc]
    /\ Fault(raises)
    /\ UNCHANGED <<events, payload, chain, resT, retT, stage_a_results, all_results, finalVars, prompted, jobDir, poolVars, calcVars>>

\* except branch: analyzer_error(...); return {"status": "error", ...}
task_exc_emit(a) ==
    /\ pcT[a] = "exc_emit"
    /\ emit_progress(analyzer_error(a))
    /\ retT' = [retT EXCEPT ![a] = ErrorRecord]
    /\ pcT' = [pcT EXCEPT ![a] = "done"]
    /\ UNCHANGED <<redis, payload, chain, storeFaults, docT, resT, stage_a_results, all_results, finalVars, prompted, jobDir, poolVars, calcVars>>

run_stage_analyzer(a) ==
    \/ \E raises \in StoreRaises : task_load1(a, raises)
    \/ \E raises \in StoreRaises : task_save1(a, raises)
    \/ task_started(a)
    \/ \E result \in AnalyzeOutcomes : task_analyze(a, result)
    \/ \E raises \in StoreRaises : task_load2(a, raises)
    \/ \E raises \in StoreRaises : task_save2(a, raises)
    \/ task_completed(a)
    \/ \E raises \in StoreRaises : task_exc_load(a, raises)
    \/ \E raises \in StoreRaises : task_exc_save(a, raises)
    \/ task_exc_emit(a)

run_stage_a_analyzer == \E a \in StageASlugs : run_stage_analyzer(a)

run_stage_b_analyzer == \E b \in StageBSlugs : run_stage_analyzer(b)

(* ---------------------------------------------------------------------- *)
(* Chord callbacks and the links of the chain                              *)
(* ---------------------------------------------------------------------- *)

\* ChordReady as it would be if the callback were attached to the tasks
\* one by one instead of to the group: it runs when some task has returned
ChordReadyAny(list) == \E a \in list : pcT[a] = "done"

\* a chord runs its callback once every task of its header group has returned
ChordReady(list) == \A a \in list : pcT[a] = "done"

\* {name: res for name, res in zip(stage_list, results)}
ChordResults(list) == [a \in GroupSlugs |-> IF a \in list THEN retT[a] ELSE Absent]

StageAResults == [a \in StageASlugs |-> ChordResults(stage_a_list)[a]]

StageBResults == [b \in StageBSlugs |-> ChordResults(stage_b_list)[b]]

\* complete_stage_a: status_doc = _load_status(job_id)
complete_stage_a_load(raises) ==
    /\ chain = "stage_a"
    /\ ChordReady(stage_a_list)
    /\ IF raises
         THEN chain' = "broken" /\ UNCHANGED status_doc
         ELSE chain' = "cb_a_save" /\ status_doc' = _load_status
    /\ Fault(raises)
    /\ UNCHANGED <<redis, events, payload, groupVars, stage_a_results, all_results, pcF, curF, resF, final_result, prompted, jobDir, poolVars, calcVars>>

\* complete_stage_a saving the document as it loaded it, with the records the
\* tasks themselves stored
complete_stage_a_save_as_loaded(raises) ==
    /\ chain = "cb_a_save"
    /\ IF raises
         THEN chain' = "broken" /\ UNCHANGED redis
         ELSE chain' = "cb_a_emit" /\ _save_status(status_doc)
    /\ status_doc' = EmptyDoc
    /\ Fault(raises)
    /\ UNCHANGED <<events, payload, groupVars, stage_a_results, all_results, pcF, curF, resF, final_result, prompted, jobDir, poolVars, calcVars>>

\* complete_stage_a: status_doc["stageA"] = stage_a_results; _save_status
complete_stage_a_save(raises) ==
    /\ chain = "cb_a_save"
    /\ IF raises
         THEN chain' = "broken" /\ UNCHANGED redis
         ELSE chain' = "cb_a_emit" /\ _save_status([status_doc EXCEPT !.stageA = StageAResults])
    /\ status_doc' = EmptyDoc
    /\ Fault(raises)
    /\ UNCHANGED <<events, payload, groupVars, stage_a_results, all_results, pcF, curF, resF, final_result, prompted, jobDir, poolVars, calcVars>>

\* complete_stage_a: stage_completed(job_id, "stage_a"); return {"stageA": stage_a_results}
complete_stage_a_emit ==
    /\ chain = "cb_a_emit"
    /\ emit_progress(stage_completed("stage_a"))
    /\ stage_a_results' = [stageA |-> StageAResults]
    /\ chain' = "stage_b_after_a"
    /\ UNCHANGED <<redis, payload, storeFaults, groupVars, all_results, finalVars, prompted, jobDir, poolVars, calcVars>>

complete_stage_a ==
    \/ \E raises \in StoreRaises : complete_stage_a_load(raises)
    \/ \E raises \in StoreRaises : complete_stage_a_save(raises)
    \/ complete_stage_a_emit

\* run_stage_b_after_a as it would be without self.replace: the Stage B chord is
\* applied on the side and the chain goes on to run_final_stage with the Stage A
\* results it was given
run_stage_b_after_a_no_replace ==
    /\ chain = "stage_b_after_a"
    /\ chain' = "final"
    /\ pcF' = "init"
    /\ all_results' = [stageA |-> stage_a_results.stageA, stageB |-> [b \in StageBSlugs |-> Absent]]
    /\ pcT' = [a \in GroupSlugs |-> IF a \in stage_b_list THEN "load1" ELSE pcT[a]]
    /\ UNCHANGED <<redis, events, payload, storeFaults, docT, resT, retT, stage_a_results, status_doc, curF, resF, final_result, prompted, jobDir, poolVars, calcVars>>

\* run_stage_b_after_a: replaces itself by chord(Stage B group, complete_stage_b);
\* it is the chain link after the Stage A chord, so it receives complete_stage_a's
\* return value
run_stage_b_after_a ==
    /\ chain = "stage_b_after_a"
    /\ chain' = "stage_b"
    /\ pcT' = [a \in GroupSlugs |-> IF a \in stage_b_list THEN "load1" ELSE pcT[a]]
    /\ UNCHANGED <<redis, events, payload, storeFaults, docT, resT, retT, stage_a_results, all_results, finalVars, prompted, jobDir, poolVars, calcVars>>

\* complete_stage_b: status_doc = _load_status(job_id)
complete_stage_b_load(raises) ==
    /\ chain = "stage_b"
    /\ ChordReady(stage_b_list)
    /\ IF raises
         THEN chain' = "broken" /\ UNCHANGED status_doc
         ELSE chain' = "cb_b_save" /\ status_doc' = _load_status
    /\ Fault(raises)
    /\ UNCHANGED <<redis, events, payload, groupVars, stage_a_results, all_results, pcF, curF, resF, final_result, prompted, jobDir, poolVars, calcVars>>

\* complete_stage_b: status_doc["stageB"] = stage_b_results; _save_status
complete_stage_b_save(raises) ==
    /\ chain = "cb_b_save"
    /\ IF raises
         THEN chain' = "broken" /\ UNCHANGED redis
         ELSE chain' = "cb_b_emit" /\ _save_status([status_doc EXCEPT !.stageB = StageBResults])
    /\ status_doc' = EmptyDoc
    /\ Fault(raises)
    /\ UNCHANGED <<events, payload, groupVars, stage_a_results, all_results, pcF, curF, resF, final_result, prompted, jobDir, poolVars, calcVars>>

\* complete_stage_b: stage_completed(job_id, "stage_b"); return all_results
complete_stage_b_emit ==
    /\ chain = "cb_b_emit"
    /\ emit_progress(stage_completed("stage_b"))
    /\ all_results' = [stageA |-> stage_a_results.stageA, stageB |-> StageBResults]
    /\ chain' = "final"
    /\ pcF' = "init"
    /\ UNCHANGED <<redis, payload, storeFaults, groupVars, stage_a_results, status_doc, curF, resF, final_result, prompted, jobDir, poolVars, calcVars>>

complete_stage_b ==
    \/ \E raises \in StoreRaises : complete_stage_b_load(raises)
    \/ \E raises \in StoreRaises : complete_stage_b_save(raises)
    \/ complete_stage_b_emit

(* ---------------------------------------------------------------------- *)
(* run_final_stage: the Final analyzers run one after the other inside one *)
(* task: meeting_notes, composite_note, then the custom slugs              *)
(* ---------------------------------------------------------------------- *)

FinalOrder == <<"meeting_notes", "composite_note", "custom_final">>

IndexOf(f) == CHOOSE i \in 1..Len(FinalOrder) : FinalOrder[i] = f

\* the selected Final analyzers that come after position i
LaterFinal(i) == {j \in (i+1)..Len(FinalOrder) : FinalOrder[j] \in final_list}

\* the analyzer run after position i and the statement it starts at: meeting_notes
\* reuses the status_doc loaded at the top, the others load it again; "-" when
\* no selected analyzer is left and aggregation is next
NextFinal(i) == IF LaterFinal(i) = {} THEN <<"-", "aggregate">> ELSE LET j == CHOOSE k \in LaterFinal(i) : \A m \in LaterFinal(i) : k <= m IN <<FinalOrder[j], IF FinalOrder[j] = "meeting_notes" THEN "save1" ELSE "load1">>

\* where an exception raised while analyzer cur is handled goes: the try around
\* the custom loop swallows it and aggregation follows; anywhere else the outer
\* except returns {"error": ..., "status": "error"}
FinalRaise(cur) ==
    IF cur \in CustomFinal
      THEN /\ pcF' = "aggregate"
           /\ UNCHANGED <<chain, final_result>>
      ELSE /\ pcF' = "returned"
           /\ chain' = "finalize"
           /\ final_result' = [status |-> "error"]

\* combined: one AnalysisResult, built with status COMPLETED, for every key of
\* all_results["stageA"] and all_results["stageB"]
combined == IF all_results = None THEN {} ELSE {a \in StageASlugs : all_results.stageA[a].st # "absent"} \cup {b \in StageBSlugs : all_results.stageB[b].st # "absent"}

\* the all_results check, the combined context and status_doc = _load_status
final_init(raises) ==
    /\ chain = "final"
    /\ pcF = "init"
    /\ IF all_results = None \/ raises
         THEN FinalRaise("-") /\ UNCHANGED <<status_doc, curF>>
         ELSE /\ status_doc' = _load_status
              /\ curF' = NextFinal(0)[1]
              /\ pcF' = NextFinal(0)[2]
              /\ UNCHANGED <<chain, final_result>>
    /\ Fault(raises)
    /\ UNCHANGED <<redis, events, payload, groupVars, stage_a_results, all_results, resF, prompted, jobDir, poolVars, calcVars>>

\* status_doc = _load_status(job_id) before marking composite_note or a custom
\* analyzer processing
final_load1(raises) ==
    /\ chain = "final"
    /\ pcF = "load1"
    /\ IF raises
         THEN FinalRaise(curF) /\ UNCHANGED status_doc
         ELSE pcF' = "save1" /\ status_doc' = _load_status /\ UNCHANGED <<chain, final_result>>
    /\ Fault(raises)
    /\ UNCHANGED <<redis, events, payload, groupVars, stage_a_results, all_results, curF, resF, prompted, jobDir, poolVars, calcVars>>

\* status_doc["final"][name] = {"status": "processing"}; _save_status
final_save1(raises) ==
    /\ chain = "final"
    /\ pcF = "save1"
    /\ IF raises
         THEN FinalRaise(curF) /\ UNCHANGED redis
         ELSE pcF' = "started" /\ _save_status(SetRecord(status_doc, curF, Processing)) /\ UNCHANGED <<chain, final_result>>
    /\ status_doc' = EmptyDoc
    /\ Fault(raises)
    /\ UNCHANGED <<events, payload, groupVars, stage_a_results, all_results, curF, resF, prompted, jobDir, poolVars, calcVars>>

\* analyzer_started(job_id, "final", name)
final_started ==
    /\ chain = "final"
    /\ pcF = "started"
    /\ emit_progress(analyzer_started(curF))
    /\ pcF' = "analyze"
    /\ UNCHANGED <<redis, payload, chain, storeFaults, groupVars, stage_a_results, all_results, status_doc, curF, resF, final_result, prompted, jobDir, poolVars, calcVars>>

\* res = analyzer.analyze_sync(final_ctx, save_intermediate=False, ...)
final_analyze(result) ==
    /\ chain = "final"
    /\ pcF = "analyze"
    /\ result \in analyze_sync(curF)
    /\ resF' = result
    /\ prompted' = IF format_prompt(curF) = "prompt" THEN prompted \cup {curF} ELSE prompted
    /\ pcF' = "load2"
    /\ UNCHANGED <<redis, events, payload, chain, storeFaults, groupVars, stage_a_results, all_results, status_doc, curF, final_result, jobDir, poolVars, calcVars>>

\* "Save result": status_doc = _load_status(job_id)
final_load2(raises) ==
    /\ chain = "final"
    /\ pcF = "load2"
    /\ IF raises
         THEN FinalRaise(curF) /\ UNCHANGED status_doc
         ELSE pcF' = "save2" /\ status_doc' = _load_status /\ UNCHANGED <<chain, final_result>>
    /\ Fault(raises)
    /\ UNCHANGED <<redis, events, payload, groupVars, stage_a_results, all_results, curF, resF, prompted, jobDir, poolVars, calcVars>>

\* status_doc["final"][name] = {...}; token totals; _save_status
final_save2(raises) ==
    /\ chain = "final"
    /\ pcF = "save2"
    /\ IF raises
         THEN FinalRaise(curF) /\ UNCHANGED redis
         ELSE pcF' = "write" /\ _save_status(WriteResult(status_doc, curF, resF)) /\ UNCHANGED <<chain, final_result>>
    /\ status_doc' = EmptyDoc
    /\ Fault(raises)
    /\ UNCHANGED <<events, payload, groupVars, stage_a_results, all_results, curF, resF, prompted, jobDir, poolVars, calcVars>>

\* "Save to file": (final_dir / "<name>.md").write_text(res.raw_output or "")
final_write(raises) ==
    /\ chain = "final"
    /\ pcF = "write"
    /\ IF raises
         THEN FinalRaise(curF) /\ UNCHANGED files
         ELSE pcF' = "emit" /\ files' = write_text(files, FinalFile(curF), "raw_output") /\ UNCHANGED <<chain, final_result>>
    /\ FileFault(raises)
    /\ UNCHANGED <<redis, events, payload, storeFaults, groupVars, stage_a_results, all_results, status_doc, curF, resF, prompted, poolVars, calcVars>>

\* "Emit appropriate event": analyzer_completed when the status is completed,
\* analyzer_error otherwise; then the next selected analyzer
final_emit ==
    /\ chain = "final"
    /\ pcF = "emit"
    /\ emit_progress(IF resF.st = "completed" THEN analyzer_completed(curF) ELSE analyzer_error(curF))
    /\ curF' = NextFinal(IndexOf(curF))[1]
    /\ pcF' = NextFinal(IndexOf(curF))[2]
    /\ resF' = Absent
    /\ UNCHANGED <<redis, payload, chain, storeFaults, groupVars, stage_a_results, all_results, status_doc, final_result, prompted, jobDir, poolVars, calcVars>>

\* the insight aggregation block, wrapped in try/except: aggregate_insights and
\* the optional LLM pass, whose own failure is swallowed and only changes the
\* items; an exception of aggregate_insights skips the rest of the block
final_aggregate(raises) ==
    /\ chain = "final"
    /\ pcF = "aggregate"
    /\ pcF' = IF raises THEN "stage_completed" ELSE "insight_dashboard.json"
    /\ curF' = "-"
    /\ resF' = Absent
    /\ UNCHANGED <<redis, events, payload, chain, storeFaults, groupVars, stage_a_results, all_results, status_doc, final_result, prompted, jobDir, poolVars, calcVars>>

\* the dashboard file written after the one called ext
NextDashboard(ext) == IF ext = "insight_dashboard.json" THEN "insight_dashboard.md" ELSE IF ext = "insight_dashboard.md" THEN "insight_dashboard.csv" ELSE "insights_updated"

\* "Write artifacts": insight_dashboard.json, .md and .csv in this order; a
\* raising write leaves the block
final_dashboard(raises) ==
    /\ chain = "final"
    /\ pcF \in {"insight_dashboard.json", "insight_dashboard.md", "insight_dashboard.csv"}
    /\ IF raises
         THEN pcF' = "stage_completed" /\ UNCHANGED files
         ELSE pcF' = NextDashboard(pcF) /\ files' = write_text(files, IF pcF = "insight_dashboard.json" THEN "final/insight_dashboard.json" ELSE IF pcF = "insight_dashboard.md" THEN "final/insight_dashboard.md" ELSE "final/insight_dashboard.csv", "insights")
    /\ FileFault(raises)
    /\ UNCHANGED <<redis, events, payload, chain, storeFaults, groupVars, stage_a_results, all_results, status_doc, curF, resF, final_result, prompted, poolVars, calcVars>>

\* final_insights_updated as it would be if the event were emitted in a finally
\* clause of the aggregation block
final_insights_updated_always ==
    /\ chain = "final"
    /\ pcF \in {"insights_updated", "stage_completed"}
    /\ Published(Event("insights.updated", "-", "-")) = 0
    /\ emit_progress(Event("insights.updated", "-", "-"))
    /\ pcF' = "stage_completed"
    /\ UNCHANGED <<redis, payload, chain, storeFaults, groupVars, stage_a_results, all_results, status_doc, curF, resF, final_result, prompted, jobDir, poolVars, calcVars>>

\* emit_progress("insights.updated", ...), last statement of the block
final_insights_updated ==
    /\ chain = "final"
    /\ pcF = "insights_updated"
    /\ emit_progress(Event("insights.updated", "-", "-"))
    /\ pcF' = "stage_completed"
    /\ UNCHANGED <<redis, payload, chain, storeFaults, groupVars, stage_a_results, all_results, status_doc, curF, resF, final_result, prompted, jobDir, poolVars, calcVars>>

\* stage_completed(job_id, "final")
final_stage_completed ==
    /\ chain = "final"
    /\ pcF = "stage_completed"
    /\ emit_progress(stage_completed("final"))
    /\ pcF' = "status_load"
    /\ UNCHANGED <<redis, payload, chain, storeFaults, groupVars, stage_a_results, all_results, status_doc, curF, resF, final_result, prompted, jobDir, poolVars, calcVars>>

\* "Update final status": status_doc = _load_status(job_id)
final_status_load(raises) ==
    /\ chain = "final"
    /\ pcF = "status_load"
    /\ IF raises
         THEN FinalRaise("-") /\ UNCHANGED status_doc
         ELSE pcF' = "status_save" /\ status_doc' = _load_status /\ UNCHANGED <<chain, final_result>>
    /\ Fault(raises)
    /\ UNCHANGED <<redis, events, payload, groupVars, stage_a_results, all_results, curF, resF, prompted, jobDir, poolVars, calcVars>>

\* status_doc["final"]["status"] = "error" if any entry has status error else
\* "completed"; _save_status; return {"status": "completed"}
final_status_save(raises) ==
    /\ chain = "final"
    /\ pcF = "status_save"
    /\ IF raises
         THEN FinalRaise("-") /\ UNCHANGED redis
         ELSE /\ _save_status([status_doc EXCEPT !.finalStatus = IF \E f \in FinalSlugs : status_doc.final[f].st = "error" THEN "error" ELSE "completed"])
              /\ pcF' = "returned"
              /\ chain' = "finalize"
              /\ final_result' = [status |-> "completed"]
    /\ status_doc' = EmptyDoc
    /\ Fault(raises)
    /\ UNCHANGED <<events, payload, groupVars, stage_a_results, all_results, curF, resF, prompted, jobDir, poolVars, calcVars>>

run_final_stage ==
    \/ \E raises \in StoreRaises : final_init(raises)
    \/ \E raises \in StoreRaises : final_load1(raises)
    \/ \E raises \in StoreRaises : final_save1(raises)
    \/ final_started
    \/ \E result \in AnalyzeOutcomes : final_analyze(result)
    \/ \E raises \in StoreRaises : final_load2(raises)
    \/ \E raises \in StoreRaises : final_save2(raises)
    \/ \E raises \in FileRaises : final_write(raises)
    \/ final_emit
    \/ \E raises \in BOOLEAN : final_aggregate(raises)
    \/ \E raises \in FileRaises : final_dashboard(raises)
    \/ final_insights_updated
    \/ final_stage_completed
    \/ \E raises \in StoreRaises : final_status_load(raises)
    \/ \E raises \in StoreRaises : final_status_save(raises)

(* ---------------------------------------------------------------------- *)
(* finalize_pipeline: last link of the chain                               *)
(* ---------------------------------------------------------------------- *)

\* status_doc = _load_status(job_id)
finalize_load(raises) ==
    /\ chain = "finalize"
    /\ IF raises
         THEN chain' = "broken" /\ UNCHANGED status_doc
         ELSE chain' = "finalize_save" /\ status_doc' = _load_status
    /\ Fault(raises)
    /\ UNCHANGED <<redis, events, payload, groupVars, stage_a_results, all_results, pcF, curF, resF, final_result, prompted, jobDir, poolVars, calcVars>>

\* finalize_save as it would be if the job status followed the analyzer outcomes
finalize_save_by_outcome(raises) ==
    /\ chain = "finalize_save"
    /\ IF raises
         THEN chain' = "broken" /\ UNCHANGED redis
         ELSE chain' = "finalize_status_file" /\ _save_status([status_doc EXCEPT !.status = IF \E a \in GroupSlugs \cup FinalSlugs : GetRecord(status_doc, a).st = "error" THEN "error" ELSE "completed"])
    /\ status_doc' = EmptyDoc
    /\ Fault(raises)
    /\ UNCHANGED <<events, payload, groupVars, stage_a_results, all_results, pcF, curF, resF, final_result, prompted, jobDir, poolVars, calcVars>>

\* status_doc["status"] = "completed"; _save_status
finalize_save(raises) ==
    /\ chain = "finalize_save"
    /\ IF raises
         THEN chain' = "broken" /\ UNCHANGED redis
         ELSE chain' = "finalize_status_file" /\ _save_status([status_doc EXCEPT !.status = "completed"])
    /\ status_doc' = EmptyDoc
    /\ Fault(raises)
    /\ UNCHANGED <<events, payload, groupVars, stage_a_results, all_results, pcF, curF, resF, final_result, prompted, jobDir, poolVars, calcVars>>

\* finalize_status_file as it would be if the two writes were swapped and
\* COMPLETED were written first
finalize_sentinel_first(raises) ==
    /\ chain = "finalize_status_file"
    /\ IF raises
         THEN chain' = "finalize_emit" /\ UNCHANGED files
         ELSE chain' = "finalize_sentinel" /\ files' = write_text(files, "COMPLETED", "ok")
    /\ FileFault(raises)
    /\ UNCHANGED <<redis, events, payload, storeFaults, groupVars, stage_a_results, all_results, finalVars, prompted, poolVars, calcVars>>

\* (job_dir / "final_status.json").write_text(...) with "status": "completed";
\* an exception leaves the try block, so COMPLETED is not written either
finalize_status_file(raises) ==
    /\ chain = "finalize_status_file"
    /\ IF raises
         THEN chain' = "finalize_emit" /\ UNCHANGED files
         ELSE chain' = "finalize_sentinel" /\ files' = write_text(files, "final_status.json", "completed")
    /\ FileFault(raises)
    /\ UNCHANGED <<redis, events, payload, storeFaults, groupVars, stage_a_results, all_results, finalVars, prompted, poolVars, calcVars>>

\* (job_dir / "COMPLETED").write_text("ok\n")
finalize_sentinel(raises) ==
    /\ chain = "finalize_sentinel"
    /\ IF raises
         THEN UNCHANGED files
         ELSE files' = write_text(files, "COMPLETED", "ok")
    /\ chain' = "finalize_emit"
    /\ FileFault(raises)
    /\ UNCHANGED <<redis, events, payload, storeFaults, groupVars, stage_a_results, all_results, finalVars, prompted, poolVars, calcVars>>

\* job_completed(job_id, total_ms, ...)
finalize_emit ==
    /\ chain = "finalize_emit"
    /\ emit_progress(job_completed)
    /\ chain' = "done"
    /\ UNCHANGED <<redis, payload, storeFaults, groupVars, stage_a_results, all_results, finalVars, prompted, jobDir, poolVars, calcVars>>

finalize_pipeline ==
    \/ \E raises \in StoreRaises : finalize_load(raises)
    \/ \E raises \in StoreRaises : finalize_save(raises)
    \/ \E raises \in FileRaises : finalize_status_file(raises)
    \/ \E raises \in FileRaises : finalize_sentinel(raises)
    \/ finalize_emit

(* ---------------------------------------------------------------------- *)
(* Hard time limit of the worker (task_time_limit in celery_app.py): the   *)
(* pool process running the task is killed, so the task neither returns    *)
(* nor reaches its except branch                                           *)
(* ---------------------------------------------------------------------- *)

\* the task stops where it is; its record and its chord are left as they are
task_time_limit(a) ==
    /\ pcT[a] \notin {"idle", "done", "killed"}
    /\ pcT' = [pcT EXCEPT ![a] = "killed"]
    /\ UNCHANGED <<redis, events, payload, chain, storeFaults, docT, resT, retT, stage_a_results, all_results, finalVars, prompted, jobDir, poolVars, calcVars>>

(* ---------------------------------------------------------------------- *)
(* One stage under the two executors: the coroutines of                    *)
(* run_stage_concurrently (async_orchestrator.py) and the tasks of a       *)
(* Celery group (parallel_orchestration.py)                                *)
(* ---------------------------------------------------------------------- *)


\* _run_one_analyzer: "async with sem" entered
run_one_analyzer_enter(i) ==
    /\ pcAsync[i] = "created"
    /\ sem > 0
    /\ sem' = sem - 1
    /\ pcAsync' = [pcAsync EXCEPT ![i] = "running"]
    /\ UNCHANGED <<mainVars, pcGroup, calcVars>>

\* _run_one_analyzer: the body has run and "async with sem" is left
run_one_analyzer_exit(i) ==
    /\ pcAsync[i] = "running"
    /\ sem' = sem + 1
    /\ pcAsync' = [pcAsync EXCEPT ![i] = "done"]
    /\ UNCHANGED <<mainVars, pcGroup, calcVars>>

\* a pool process of the worker takes a task of the group: the group is applied
\* as a whole and nothing in the task or in its signature waits for a slot
group_task_start(i) ==
    /\ pcGroup[i] = "queued"
    /\ pcGroup' = [pcGroup EXCEPT ![i] = "running"]
    /\ UNCHANGED <<mainVars, sem, pcAsync, calcVars>>

\* the task returns
group_task_return(i) ==
    /\ pcGroup[i] = "running"
    /\ pcGroup' = [pcGroup EXCEPT ![i] = "done"]
    /\ UNCHANGED <<mainVars, sem, pcAsync, calcVars>>

(* ---------------------------------------------------------------------- *)
(* Specification                                                           *)
(* ---------------------------------------------------------------------- *)

Next ==
    \/ \E p \in Payloads : api_analyze(p)
    \/ run_parallel_pipeline
    \/ run_stage_a_analyzer
    \/ complete_stage_a
    \/ run_stage_b_after_a
    \/ run_stage_b_analyzer
    \/ complete_stage_b
    \/ run_final_stage
    \/ finalize_pipeline

Spec == Init /\ [][Next]_vars

\* workers keep taking tasks: a step that stays possible is eventually taken
FairSpec == Init /\ [][Next]_vars /\ WF_vars(Next)

\* the pipeline on a store that answers: the steps in which no Redis operation
\* raises, taken fairly
ReliableStoreNext == Next /\ storeFaults' = storeFaults

ReliableStoreSpec == Init /\ [][ReliableStoreNext]_vars /\ WF_vars(ReliableStoreNext)

\* the pipeline with the hard time limit acting on the analyzer tasks
TimeLimitNext ==
    \/ Next
    \/ \E a \in GroupSlugs : task_time_limit(a)

TimeLimitSpec == Init /\ [][TimeLimitNext]_vars /\ WF_vars(TimeLimitNext)

\* one stage of four analyzers under each executor
PoolNext ==
    \/ \E i \in StageTasks : run_one_analyzer_enter(i)
    \/ \E i \in StageTasks : run_one_analyzer_exit(i)
    \/ \E i \in StageTasks : group_task_start(i)
    \/ \E i \in StageTasks : group_task_return(i)

PoolSpec == Init /\ [][PoolNext]_vars

\* the combined context of one Stage B prompt, for every input within the bounds
CombinerInit == PipelineInit /\ CombinerInputs /\ SummarizerIdle /\ AggregatorIdle /\ RunnerIdle /\ ClientIdle /\ ExtractorIdle

CombinerNext == build_fair_combined_context

CombinerSpec == CombinerInit /\ [][CombinerNext]_vars

\* one call of summarize_text, for every input within the bounds
SummarizerInit == PipelineInit /\ CombinerIdle /\ SummarizerInputs /\ AggregatorIdle /\ RunnerIdle /\ ClientIdle /\ ExtractorIdle

SummarizerNext == summarize_text

SummarizerSpec == SummarizerInit /\ [][SummarizerNext]_vars

\* the aggregation block of one job, then a second call of the aggregator
AggregatorInit == PipelineInit /\ CombinerIdle /\ SummarizerIdle /\ AggregatorInputs /\ RunnerIdle /\ ClientIdle /\ ExtractorIdle

AggregatorNext ==
    \/ final_aggregate_insights
    \/ final_merge_and_write
    \/ aggregate_again

AggregatorSpec == AggregatorInit /\ [][AggregatorNext]_vars

\* the analyzers of two jobs inside analyze_sync at the same time
RunnerInit == PipelineInit /\ CombinerIdle /\ SummarizerIdle /\ AggregatorIdle /\ RunnerInputs /\ ClientIdle /\ ExtractorIdle

RunnerNext == analyze_sync_steps

RunnerSpec == RunnerInit /\ [][RunnerNext]_vars

\* the client of one worker, its provider failing or not
ClientInit == PipelineInit /\ CombinerIdle /\ SummarizerIdle /\ AggregatorIdle /\ RunnerIdle /\ ClientInputs /\ ExtractorIdle

ClientNext ==
    \/ \E w \in Workers, fails \in BOOLEAN : load_cache(w, fails)
    \/ \E w \in Workers, q \in Requests : complete_sync(w, q)
    \/ \E w \in Workers, failed \in Failures \cup {"None"}, r \in Responses : make_api_call_sync(w, failed, r)
    \/ \E w \in Workers, failed \in Failures \cup {"None"}, r \in Responses : make_responses_call_sync(w, failed, r)
    \/ \E w \in Workers : complete_sync_cache(w)
    \/ \E w \in Workers, fails \in BOOLEAN, truncated \in BOOLEAN : save_cache(w, fails, truncated)
    \/ \E w \in Workers : complete_sync_return(w)

ClientSpec == ClientInit /\ [][ClientNext]_vars

\* the clients of two workers over one cache file, the provider answering
SharedCacheInit == PipelineInit /\ CombinerIdle /\ SummarizerIdle /\ AggregatorIdle /\ RunnerIdle /\ SharedCacheInputs /\ ExtractorIdle

SharedCacheNext ==
    \/ \E w \in Workers : load_cache(w, FALSE)
    \/ \E w \in Workers, q \in CacheableRequests : complete_sync(w, q)
    \/ \E w \in Workers, r \in Responses : make_api_call_sync(w, "None", r)
    \/ \E w \in Workers : complete_sync_cache(w)
    \/ \E w \in Workers : save_cache(w, FALSE, FALSE)
    \/ \E w \in Workers : complete_sync_return(w)

SharedCacheSpec == SharedCacheInit /\ [][SharedCacheNext]_vars

\* the extraction passes of aggregate_insights over one entry
ExtractorInit == PipelineInit /\ CombinerIdle /\ SummarizerIdle /\ AggregatorIdle /\ RunnerIdle /\ ClientIdle /\ ExtractorInputs

ExtractorNext ==
    \/ aggregate_json
    \/ aggregate_structured
    \/ aggregate_heuristics
    \/ aggregate_attach_evidence
    \/ aggregate_dedupe

ExtractorSpec == ExtractorInit /\ [][ExtractorNext]_vars

(* ---------------------------------------------------------------------- *)
(* Properties                                                              *)
(* ---------------------------------------------------------------------- *)

AllSlugs == GroupSlugs \cup FinalSlugs

Terminal == {"completed", "error"}

RECURSIVE SumTokens(_, _)
\* sum of token_usage.total_tokens over the entries keys of the mapping recs
SumTokens(recs, keys) == IF keys = {} THEN 0 ELSE LET k == CHOOSE x \in keys : TRUE IN recs[k].tok + SumTokens(recs, keys \ {k})

\* the selected analyzers of a stage
SelectedOf(s) == IF s = "stage_a" THEN stage_a_list ELSE IF s = "stage_b" THEN stage_b_list ELSE final_list

\* pending (absent) < processing < completed, error
Rank(st) == IF st = "absent" THEN 0 ELSE IF st = "processing" THEN 1 ELSE 2

\* C1: in every state of the job record, tokenUsageTotal.total equals the sum of
\* the token_usage totals of all analyzer records stored under stageA, stageB
\* and final, a record without token usage counting as 0.
C1_TokenSum == redis.total = SumTokens(redis.stageA, StageASlugs) + SumTokens(redis.stageB, StageBSlugs) + SumTokens(redis.final, FinalSlugs)

\* C2: no write of an analyzer task is lost: once a Stage A / Stage B task has
\* saved its record, the stored record changes only in a step of that same task
\* (or of the chord callback that stores the record the task returned); no step
\* of a sibling task replaces it.
C2_NoLostWrite == [][\A a \in GroupSlugs : (GetRecord(redis, a).st # "absent" /\ GetRecord(redis', a) # GetRecord(redis, a)) => (pcT'[a] # pcT[a] \/ chain' # chain)]_vars

\* C3: the stored status of every analyzer only moves forward along
\* pending (absent) -> processing -> completed | error: no step takes a record
\* from completed or error back to processing, or from processing, completed or
\* error back to absent.
C3_StatusForward == [][\A a \in AllSlugs : Rank(GetRecord(redis', a).st) >= Rank(GetRecord(redis, a).st)]_vars

\* a Stage B task has started: it left the queue, marked its record or emitted
\* analyzer.started
StageBStarted(b) == pcT[b] # "idle" \/ redis.stageB[b].st # "absent" \/ Published(analyzer_started(b)) > 0

\* C4: no Stage B analyzer task starts before every selected Stage A task has
\* returned a terminal result and stage.completed for stage_a has been emitted.
C4_StageBAfterBarrierA == \A b \in StageBSlugs : StageBStarted(b) => ((\A a \in stage_a_list : pcT[a] = "done" /\ retT[a].st \in Terminal) /\ Published(stage_completed("stage_a")) > 0)

\* a Stage B analyzer is running while one Stage A analyzer ended in error
C4_Witness == \E b \in StageBSlugs : Published(analyzer_started(b)) > 0 /\ \E a \in stage_a_list : retT[a].st = "error"

\* a Final analyzer has started: its record is marked or analyzer.started was emitted
FinalStarted(f) == redis.final[f].st # "absent" \/ Published(analyzer_started(f)) > 0 \/ curF = f

\* C5: no Final analyzer starts before every selected Stage B task has returned
\* a terminal result and complete_stage_b has produced the combined Stage A +
\* Stage B results that run_final_stage receives as all_results.
C5_FinalAfterBarrierB == \A f \in FinalSlugs : FinalStarted(f) => ((\A b \in stage_b_list : pcT[b] = "done" /\ retT[b].st \in Terminal) /\ all_results # None /\ Published(stage_completed("stage_b")) > 0)

\* a Final analyzer is running on the results of the Stage B barrier
C5_Witness == \E f \in FinalSlugs : Published(analyzer_started(f)) > 0 /\ all_results # None /\ pcF = "analyze"

\* C6: at the moment stage.completed is published for a stage, every selected
\* analyzer of that stage has a record with status completed or error in the
\* job store.
C6_StageCompletedTerminal == [][\A s \in {"stage_a", "stage_b", "final"} : CopiesIn(stage_completed(s), events') > CopiesIn(stage_completed(s), events) => \A a \in SelectedOf(s) : GetRecord(redis, a).st \in Terminal]_vars

\* C7: analyzer.completed or analyzer.error is published for an analyzer only
\* after analyzer.started was published for it.
C7_StartedFirst == \A a \in AllSlugs : (Published(analyzer_completed(a)) > 0 \/ Published(analyzer_error(a)) > 0) => Published(analyzer_started(a)) > 0

\* C8: when a Stage A or Stage B analyzer failed, the terminal event published
\* for it is analyzer.error and never analyzer.completed.
C8_FailureEmitsError == \A a \in GroupSlugs : (pcT[a] = "done" /\ retT[a].st = "error") => (Published(analyzer_error(a)) > 0 /\ Published(analyzer_completed(a)) = 0)

\* C9: the Stage A results handed to Stage B, and the combined results handed
\* to Final, contain only records whose status is completed.
C9_SnapshotCompletedOnly == (\A a \in stage_a_analyses : stage_a_results.stageA[a].st = "completed") /\ (\A x \in combined : (IF x \in StageASlugs THEN all_results.stageA[x] ELSE all_results.stageB[x]).st = "completed")

\* a pipeline-level failure: a Redis operation raised, or the payload carries no
\* transcript text
PipelineFailure == storeFaults > 0 \/ payload.kind # "text"

\* C10: unless a pipeline-level failure occurs, the job ends with status
\* completed, exactly one job.completed event and no job.error event, however
\* many analyzers ended in error.
C10_JobCompletes == <>[](PipelineFailure \/ (redis.status = "completed" /\ Published(job_completed) = 1 /\ Published(job_error) = 0))

\* a run without pipeline-level failure that finished although an analyzer of
\* every stage ended in error
C10_Witness == chain = "done" /\ ~PipelineFailure /\ redis.status = "completed" /\ (\E a \in StageASlugs : redis.stageA[a].st = "error") /\ (\E b \in StageBSlugs : redis.stageB[b].st = "error") /\ (\E f \in FinalSlugs : redis.final[f].st = "error")

\* every selected Stage A task has returned and every one returned an error
AllStageAError == payload.kind = "text" /\ \A a \in stage_a_list : pcT[a] = "done" /\ retT[a].st = "error"

\* analyzer x was started, got a prompt for the LLM out of its context and has a
\* terminal record
RanToTheEnd(x) == Published(analyzer_started(x)) > 0 /\ x \in prompted /\ GetRecord(redis, x).st \in Terminal

TimedOut(a) == pcT[a] = "killed"

\* nothing of the job is running or waiting to run
Quiescent == ~ENABLED TimeLimitNext

\* C12: an analyzer task that exceeds its time limit ends with an error record,
\* its siblings are not cancelled, the barrier of its stage still fires once all
\* siblings are terminal, and the job still reaches a terminal status: when the
\* job has come to rest, every timed-out analyzer has an error record, the
\* stage.completed event of its stage was published and the job status is
\* completed or error.
C12_TimeoutIsAnalyzerError == \A a \in GroupSlugs : (TimedOut(a) /\ Quiescent) => (GetRecord(redis, a).st = "error" /\ Published(stage_completed(StageOf(a))) > 0 /\ redis.status \in Terminal)

\* C13 as stated: in every state of the job directory, COMPLETED exists if and
\* only if final_status.json exists with status completed.
C13_SentinelIffCompleted == Exists("COMPLETED") <=> FinalStatusJson = "completed"

\* C13 as amended: whenever COMPLETED exists, final_status.json exists with
\* status completed (the sentinel is written last; final_status.json may say
\* completed before the sentinel exists, and for good when writing it fails).
C13_SentinelImpliesCompleted == Exists("COMPLETED") => FinalStatusJson = "completed"

\* finalize_pipeline has written both files
C13_Witness == chain = "finalize_emit" /\ Exists("COMPLETED") /\ FinalStatusJson = "completed"

\* C14: whenever the job ends with status error, final_status.json is written
\* with status error (and a diagnostic string) and no COMPLETED sentinel exists.
C14_ErrorWritesFinalStatus == (redis.status = "error" /\ chain = "failed") => (FinalStatusJson = "error" /\ ~Exists("COMPLETED"))

\* the steps the job-level status may take; a job that fails before its
\* processing record is stored goes from queued to error
Lifecycle == {<<"none", "queued">>, <<"queued", "processing">>, <<"queued", "error">>, <<"processing", "completed">>, <<"processing", "error">>}

\* C15: the job-level status in the store only follows
\* queued -> processing -> (completed | error), and once it is completed or
\* error no later write by any task of the job changes it.
C15_StatusLifecycle == [][redis'.status # redis.status => <<redis.status, redis'.status>> \in Lifecycle]_vars

\* the submission carries no transcript text
InputError == payload.kind \in {"empty", "fileOnly"}

\* C16: a submission that is an input error (here: the transcript text is
\* empty) is rejected at submit with no side effects: no job record is written
\* to the store, no job.queued event is emitted and no pipeline task is enqueued.
C16_InputErrorRejected == InputError => (redis = EmptyDoc /\ Published(job_queued) = 0 /\ chain = "rejected")

\* C17: an empty selection for a later stage runs no analyzer of that stage: with
\* selected Stage B empty no Stage B analyzer is started, with selected Final
\* empty no Final analyzer is started and no Final analyzer artifact is written.
C17_EmptySelectionRunsNothing == payload.kind = "text" => ((payload.stageB = {} => \A b \in StageBSlugs : ~StageBStarted(b)) /\ (payload.final = {} => \A f \in FinalSlugs : ~FinalStarted(f) /\ ~Exists(FinalFile(f))))

\* the tasks of the stage that are executing under an executor
Running(pc) == {i \in StageTasks : pc[i] = "running"}

\* C18: at no time are more than max_concurrent analyzer tasks of the same stage
\* of a job executing simultaneously, whichever executor runs the stage.
C18_AtMostMaxConcurrent == Cardinality(Running(pcAsync)) <= max_concurrent /\ Cardinality(Running(pcGroup)) <= max_concurrent

\* the aggregation block of run_final_stage has been left
AggregationOver == pcF = "stage_completed" \/ Published(stage_completed("final")) > 0

\* C19: however insight aggregation ends (also when extraction or the writing of
\* a dashboard file fails), insight_dashboard.json exists in final/ afterwards,
\* and the job still ends with status completed.
C19_DashboardAlwaysWritten == (AggregationOver => Exists("final/insight_dashboard.json")) /\ (chain = "done" => redis.status = "completed")

insights_updated == Event("insights.updated", "-", "-")

\* C20: insights.updated is published at most once for the job, and only after
\* insight_dashboard.json, insight_dashboard.md and insight_dashboard.csv have
\* all been written; it is never published when one of those writes failed.
C20_InsightsUpdatedAfterWrites == Published(insights_updated) <= 1 /\ (Published(insights_updated) > 0 => \A d \in DashboardFiles : Exists(d))

\* the event was published for a job whose three dashboard files exist
C20_Witness == Published(insights_updated) = 1 /\ (\A d \in DashboardFiles : Exists(d)) /\ pcF = "stage_completed"

\* the allocations of the budgeted path are final
Allocated == Budgeted /\ pcCombine \in {"trim", "done"}

\* the combined context of the budgeted path has been built
Combined == Budgeted /\ pcCombine = "done"

\* C21: in the budgeted path (S > B > 0), for every number of sections, every
\* list of section token counts and every minimum, the allocations returned sum
\* to exactly the budget B.
C21_AllocationsSumToBudget == Allocated => sum(allocations) = total_budget_tokens

\* m' = min(m, floor(B / n))
MinGuaranteed == min(min_per_analyzer, total_budget_tokens \div Len(sections))

\* C22: in the budgeted path every section, the last one after the rounding
\* adjustment included, keeps at least min(m', count[i]) tokens in the output,
\* and no section's allocation is below m'.
C22_EverySectionKeepsMinimum == Combined => \A i \in DOMAIN sections : after_counts[i] >= min(MinGuaranteed, per_counts[i]) /\ allocations[i] >= MinGuaranteed

\* C23: in the budgeted path the trimmed sections placed in the combined context
\* have at most B + n tokens in total.
C23_TrimmedWithinBudget == Combined => sum(after_counts) <= total_budget_tokens + Len(sections)

\* summarize_text is over: it has returned or raised
Summarized == pcSummarize \in {"returned", "raised"}

\* the text has at most single_pass_max_tokens tokens
Small == text_tokens <= summarize_args.single_pass_max_tokens

\* C24 as stated: on a text of at most single_pass_max_tokens tokens the
\* summarizer makes exactly one LLM completion call, no map call and no reduce
\* call, whether that call succeeds or fails.
C24_SmallTextOneCall == (Summarized /\ Small) => llm_calls = [single |-> 1, map |-> 0, reduce |-> 0]

\* C24 amended: on such a text the summarizer makes no map call and no reduce
\* call and at most one completion call; it makes exactly one whenever the
\* directory of its artifacts could be made, that is whenever the try block
\* was entered, whether the call then succeeds or fails.
C24_SmallTextOneCallOnceInTry == (Summarized /\ Small) => llm_calls.map = 0 /\ llm_calls.reduce = 0 /\ llm_calls.single = (IF debug_mode = "None" THEN 0 ELSE 1)

\* a small text was summarized in one call that failed, and the fallback returned
C24_Witness == Small /\ pcSummarize = "returned" /\ debug_mode = "fallback" /\ llm_calls.single = 1

\* (type, lower(trim(title)), owner, due_date) of a dashboard item
DashboardKey(it) == <<it.type, strip(lower(IF it.title = PyNone THEN <<>> ELSE it.title)), it.owner, it.due_date>>

\* C25: the items written to the insight dashboard, after all passes and the
\* merge of the LLM's items, are pairwise distinct on the key
\* (type, lower(trim(title)), owner, due_date).
C25_DashboardItemsDistinct == pcAggregate \in {"written", "done"} => \A i, j \in DOMAIN dashboard : i # j => DashboardKey(dashboard[i]) # DashboardKey(dashboard[j])

\* C26: the aggregator run twice on the same analyzer results and transcript
\* yields the same items in the same order with identical field values.
C26_AggregatorDeterministic == pcAggregate = "done" => insights_again = insights

\* output/jobs/<job_id>
JobDirOf(j) == <<"output", "jobs", j>>

\* C27: every intermediate artifact of a Stage A or Stage B analyzer of job J is
\* written under J's own artifact directory at intermediate/<stage>/<slug>, so
\* analyzers of two jobs running at the same time never write the same file.
C27_IntermediateUnderJobDir == \A w \in written : w.path.dir = JobDirOf(w.job) /\ \A v \in written : v.job # w.job => v.path # w.path

C28_StoreFailureIsJobError == chain = "broken" => (redis.status = "error" /\ Published(job_error) > 0)

\* the records the tasks of a stage returned, one for each selected slug
Returned(stage, list, slugs) == \A a \in slugs : stage[a] = (IF a \in list THEN retT[a] ELSE Absent) /\ (a \in list => stage[a].st \in Terminal)

\* C29: right after the Stage A barrier callback has saved the job record, its
\* stageA mapping has exactly the selected Stage A slugs as keys, each mapped to
\* the terminal record that slug's own task returned, whatever the interleaving
\* of loads and saves during the stage; the same for stageB after the Stage B
\* barrier callback.
C29_BarrierStoresReturnedRecords == (chain = "cb_a_emit" => Returned(redis.stageA, stage_a_list, StageASlugs)) /\ (chain = "cb_b_emit" => Returned(redis.stageB, stage_b_list, StageBSlugs))

\* the Stage A callback has just saved the records of two tasks, one completed
\* and one failed
C29_Witness == chain = "cb_a_emit" /\ (\E a \in stage_a_list : redis.stageA[a].st = "completed") /\ (\E a \in stage_a_list : redis.stageA[a].st = "error")

\* an attempt is being made on the provider by worker w
Attempt(w) == call'[w].attempts = call[w].attempts + 1

\* C31: a completion makes at most 3 provider attempts, and an attempt after
\* the first is made only when the attempt before it failed transiently: a
\* permanent failure (invalid request, authentication) is not retried.
C31_RetryOnlyAfterTransient == [][\A w \in Workers : Attempt(w) => (call'[w].attempts <= 3 /\ call[w].failure \in {"None", "transient"})]_vars

\* C32: in chunk_text_by_tokens the window start strictly increases on every
\* iteration of the loop, whatever chunk_tokens >= 1 and overlap_tokens >= 0
\* are (overlap_tokens >= chunk_tokens included), so the loop terminates with
\* a finite list of chunks.
C32_WindowStartIncreases == [][(pcSummarize = "while" /\ pcSummarize' = "while") => start' > start]_vars

\* an LLM call of the summarizer failed, inside the client or at the provider
LlmFailed == caught \in {"provider", "client"}

\* ceil(a / b) for b > 0
ceil(a, b) == (a + b - 1) \div b

\* C33: in map-reduce mode with every LLM call succeeding, the summarizer ends
\* having made exactly one map call per chunk and exactly one reduce call, and
\* the chunks are at least ceil(tokens(text) / C).
C33_OneMapPerChunkThenReduce == (Summarized /\ ~single_pass /\ ~LlmFailed) => (llm_calls.map = chunks /\ llm_calls.reduce = 1 /\ chunks >= ceil(text_tokens, summarize_args.map_chunk_tokens))

\* C34: when an LLM call of the summarizer has failed, summarize_text does not
\* raise: it returns, with the leading slice of the text and mode fallback.
C34_LlmFailureFallsBack == (Summarized /\ LlmFailed) => (pcSummarize = "returned" /\ debug_mode = "fallback")

\* C35: with no summary model configured and a provider that answers, the
\* summarizer returns the provider's summary in mode single_pass or
\* map_reduce, never the fallback slice.
C35_DefaultModelSummarizes == (pcSummarize = "returned" /\ summarize_args.map_model = "None" /\ summarize_args.reduce_model = "None" /\ caught \notin {"provider", "write"}) => debug_mode \in {"single_pass", "map_reduce"}

\* the temperature of a call
Temperature(q) == get(q.temperature, llm_config.temperature)

\* worker w enters complete_sync
Begins(w) == call[w].pc = "idle" /\ call'[w].pc # "idle"

\* the entry was stored by a call with the model, prompt, system prompt and
\* max_tokens of request q
SameCall(e, q) ==
    /\ e.key.model = get(q.model, llm_config.model)
    /\ e.key.prompt = q.prompt
    /\ e.key.system_prompt = q.system_prompt
    /\ e.key.max_tokens = get(q.max_tokens, llm_config.max_tokens)

\* ... and with its reasoning_effort and text_verbosity, which count when the
\* configured model is a gpt-5 model
SameExtra(e, q) ==
    llm_config.model = "gpt-5" => e.key.extra = <<get(q.reasoning_effort, llm_config.reasoning_effort), get(q.text_verbosity, llm_config.text_verbosity)>>

\* the call of worker w returns what entry e holds, the provider not invoked
Replayed(w, e) ==
    /\ call'[w].pc = "returned"
    /\ call'[w].attempts = 0
    /\ call'[w].response = e.response
    /\ call'[w].token_usage = e.token_usage

\* a call with a temperature other than 0 neither reads nor writes the cache
UncachedWhenNotDeterministic(w) ==
    /\ (Begins(w) /\ Temperature(call'[w].request) # 0) => call'[w].pc # "returned"
    /\ (call[w].pc \in {"chat", "responses", "completed", "save"} /\ Temperature(call[w].request) # 0) => (cache' = cache /\ cache_file' = cache_file)

\* C36 as stated: once a temperature-0 call has succeeded, a later call of the
\* same client with the same (model, prompt, system prompt, max_tokens)
\* returns the stored text and usage without invoking the provider; a call
\* with another temperature never reads the cache and never writes it.
C36_SameCallReplayed == [][\A w \in Workers : /\ (Begins(w) /\ Temperature(call'[w].request) = 0) => (\A e \in cache[w] : SameCall(e, call'[w].request) => Replayed(w, e))
                                             /\ UncachedWhenNotDeterministic(w)]_vars

\* C36 amended: the later call must also carry the same reasoning_effort and
\* text_verbosity when the configured model is a gpt-5 model; then it
\* returns the stored text and usage without invoking the provider.  A call
\* with another temperature never reads the cache and never writes it.
C36_SameKeyReplayed == [][\A w \in Workers : /\ (Begins(w) /\ Temperature(call'[w].request) = 0) => (\A e \in cache[w] : (SameCall(e, call'[w].request) /\ SameExtra(e, call'[w].request)) => Replayed(w, e))
                                            /\ UncachedWhenNotDeterministic(w)]_vars

\* the second call of a worker was answered from its cache
C36_Witness == \E w \in Workers : call[w].calls = 2 /\ call[w].pc = "returned" /\ call[w].attempts = 0 /\ call[w].cache_key # {}

\* C37: with two workers on the same cache file, an entry one worker has
\* persisted is never removed by a save of the other, so that after both have
\* stored a response both entries are in the file.
C37_PersistedEntriesKept == [][\A e \in cache_file : \E f \in cache_file' : f.key = e.key]_vars

\* the entry carries an anchor token
Anchored == anchor_positions(results.entry) # {}

\* the N of its first anchor token
EntryAnchor == seg(results.entry[first(anchor_positions(results.entry))])

\* C38: an item extracted from a line carrying [#seg-N] is returned with
\* links.transcript_anchor = "#seg-N" and evidence.segment_id = N; the scan of
\* the transcript does not put another segment in their place.
C38_ExplicitAnchorKept == (pcExtract = "returned" /\ Anchored) => \A i \in DOMAIN collected : (collected[i].transcript_anchor = anchor(EntryAnchor) /\ collected[i].segment_id = EntryAnchor)

\* C39: every item the aggregator returns has a non-empty title, whatever
\* pass it was extracted by.
C39_TitlesNotEmpty == pcExtract = "returned" => \A i \in DOMAIN collected : collected[i].title # <<>>

====
